---- MODULE Spec2Model ----
(***************************************************************************)
(* Model of the channel status detector (src/app.py).                      *)
(*                                                                         *)
(*   SpecAnalyze : one call of analyze_channel_status, from its arguments  *)
(*                 to the returned analysis dict (or a raised exception),  *)
(*                 with the answers of the search probe, the snapshot      *)
(*                 store, the view cache and the fallback scorer drawn     *)
(*                 where the code asks for them.                           *)
(*   SpecDetect  : one call of detect_channel_status.                      *)
(*   SpecStore   : sequences of store_view_count calls on view_history.    *)
(***************************************************************************)
EXTENDS Integers, Sequences, FiniteSets, TLC

VARIABLES
    pc,                  \* position inside analyze_channel_status
    args,                \* arguments of analyze_channel_status
    n_gifs,              \* len(all_gifs_list) (items all carry an id): len(gif_ids)
    search_visibility,   \* local search_visibility: NoneV or a record
    visible_in_search,   \* local visible_in_search
    view_trend_analysis, \* local view_trend_analysis: NoneV or a record
    analysis,            \* the analysis dict being built / returned
    cache,               \* channel_views_cache.json entry of the channel
    dpc,                 \* position inside detect_channel_status
    dres,                \* result dict of detect_channel_status
    denv,                \* what the Content Source answered in that call
    view_history,        \* rows of table view_history
    next_rowid,          \* AUTOINCREMENT counter of view_history.id
    store_calls,         \* the store_view_count calls made so far, in order
    writers,             \* concurrent store_view_count calls: position, locals
    db_lock,             \* connection holding SQLite's write lock, or NoneV
    gif_checks,          \* _check_single_gif_visibility calls: position, locals
    tag_futures,         \* their tag_futures: state and progress of each probe
    search_hits,         \* Content Source: page of each tag search with a hit
    late_requests,       \* items whose probes searched after the cancellation
    sampled_gifs,        \* what the Content Source holds for all_gifs_list
    snapshot_store,      \* what the snapshot store answered to the trend call
    alternative_analysis, \* local alternative_analysis, once it was assigned
    shadow_check,        \* one call of check_shadow_banned_channel
    cache_before,        \* the channel's cache entry when the call began
    search_scan,         \* one call of check_channel_gifs_in_search_results
    cache_file,          \* channel_views_cache.json
    cachers,             \* concurrent cache_views calls: position, locals
    timed_rows,          \* view_history rows with recorded_at, in hours
    trend_call           \* one call of analyze_view_trends: position, locals

vars == <<pc, args, n_gifs, search_visibility, visible_in_search,
          view_trend_analysis, analysis, cache, dpc, dres, denv,
          view_history, next_rowid, store_calls, writers, db_lock,
          gif_checks, tag_futures, search_hits, late_requests,
          sampled_gifs, snapshot_store, alternative_analysis, shadow_check,
          cache_before, search_scan, cache_file, cachers, timed_rows,
          trend_call>>

analyzeVars == <<pc, args, n_gifs, search_visibility, visible_in_search,
                 view_trend_analysis, analysis, cache>>
detectVars == <<dpc, dres, denv>>
storeVars == <<view_history, next_rowid, store_calls, writers, db_lock>>
probeVars == <<gif_checks, tag_futures, search_hits, late_requests>>
otherVars == <<shadow_check, cache_before, search_scan, cache_file, cachers,
               timed_rows, trend_call>>
\* What a call of check_shadow_banned_channel leaves alone, and a call of
\* check_channel_gifs_in_search_results
shadowFrame == <<analyzeVars, detectVars, storeVars, probeVars, sampled_gifs,
                 snapshot_store, alternative_analysis, cache_before,
                 search_scan, cache_file, cachers, timed_rows, trend_call>>
scanFrame == <<analyzeVars, detectVars, storeVars, probeVars, sampled_gifs,
               snapshot_store, alternative_analysis, cache_before,
               shadow_check, cache_file, cachers, timed_rows, trend_call>>
cacheFrame == <<analyzeVars, detectVars, storeVars, probeVars, sampled_gifs,
                snapshot_store, alternative_analysis, cache_before,
                shadow_check, search_scan, timed_rows, trend_call>>
trendFrame == <<analyzeVars, detectVars, storeVars, probeVars, sampled_gifs,
                snapshot_store, alternative_analysis, cache_before,
                shadow_check, search_scan, cache_file, cachers>>
sourceVars == <<sampled_gifs, snapshot_store, alternative_analysis, otherVars>>

\* Python's None, and a value that is not None: an optional value is a
\* sequence of length 0 or 1
NoneV == <<>>
Some(x) == <<x>>
IsNone(o) == o = <<>>
Val(o) == o[1]
\* "o is not None and o > 0", "o is not None and o == 0"
Positive(o) == ~IsNone(o) /\ Val(o) > 0
IsZero(o) == ~IsNone(o) /\ Val(o) = 0

-----------------------------------------------------------------------------
(* Thresholds of analyze_channel_status *)

SHADOW_BAN_THRESHOLD == 50
WORKING_THRESHOLD == 1000
SHADOW_BAN_THRESHOLD_48H == 100
WORKING_THRESHOLD_48H == 2000
LARGE_CHANNEL_VIEWS == 100000
VERY_LARGE_CHANNEL_THRESHOLD == 10000000
MANY_UPLOADS_THRESHOLD == 50
NO_VIEWS_PERCENT == 70

\* x / y * 100 >= 1, for y > 0: the "1%+ increase on large channels" of the
\* comment of line 4508
PctAtLeastOne(x, y) == x >= (y + 99) \div 100

\* x / y * 100 >= 0.1, for y > 0 (percentage_increase >= 0.1)
PctAtLeastTenth(x, y) == x >= (y + 999) \div 1000

\* x / y * 100 >= 5.0, for y > 0 (percentage_increase >= 5.0)
PctAtLeastFive(x, y) == x >= (y + 19) \div 20

-----------------------------------------------------------------------------
(* The analysis dict *)

InitialAnalysis ==
    [shadow_banned |-> FALSE, banned |-> FALSE, working |-> FALSE,
     status |-> "unknown", analysis_reasons |-> <<>>]

\* The flag assignments the branches make
W3 == [working |-> TRUE, shadow_banned |-> FALSE, banned |-> FALSE]
\* A shadow banned verdict that sets its own flag and leaves the others
ShadowFlagOnly == [shadow_banned |-> TRUE]
S3 == [shadow_banned |-> TRUE, working |-> FALSE, banned |-> FALSE]
B3 == [banned |-> TRUE, working |-> FALSE, shadow_banned |-> FALSE]
U3 == [working |-> FALSE, shadow_banned |-> FALSE, banned |-> FALSE]
W2 == [working |-> TRUE, shadow_banned |-> FALSE]
S2 == [shadow_banned |-> TRUE, working |-> FALSE]
U2 == [working |-> FALSE, shadow_banned |-> FALSE]

\* analysis[k] = v for the flags of `flags`, analysis['status'] = st,
\* analysis['analysis_reasons'].append(reason); a reason is named by the
\* source line of its append
Verdict(a, st, flags, reason) ==
    [k \in DOMAIN a |->
        IF k \in DOMAIN flags THEN flags[k]
        ELSE IF k = "status" THEN st
        ELSE IF k = "analysis_reasons" THEN Append(a.analysis_reasons, reason)
        ELSE a[k]]

\* analysis['analysis_reasons'].append(reason) alone
Reason(a, reason) ==
    [a EXCEPT !.analysis_reasons = Append(@, reason)]

-----------------------------------------------------------------------------
(* Trend Analyzer: analyze_view_trends and the real-time cache comparison *)

\* What the snapshot store answers to one analyze_view_trends call:
\*   y24, h48  get_channel_total_views_24_hours_ago / _48_hours_ago
\*   ydate     get_channel_total_views_for_date(channel_id, yesterday)
\*   ygif      a gif of gif_ids has a row dated yesterday (per-gif fallback)
\*   ygif_sum  the sum of those per-gif rows
\*   gwv       number of gifs with a row in the last `days` days
\*   today     the sum of their latest rows
\* analyze_view_trends(gif_ids, days=2, channel_id) on these answers, n being
\* len(gif_ids)
\* A lookup that retries at 48 hours when no total 24 hours old is found
TimestampBaselineRetry48(db) ==
    [total |-> IF db.y24 > 0 THEN db.y24 ELSE db.h48,
     h48 |-> IF db.y24 > 0 THEN db.h48 ELSE 0]

\* Lines 2811-2822: the total about 24 hours old; the total 48 hours old is
\* looked up only when the former is positive
TimestampBaseline(db) ==
    [total |-> db.y24, h48 |-> IF db.y24 > 0 THEN db.h48 ELSE 0]

analyze_view_trends(n, db) ==
    IF n = 0 THEN
        [total_gifs |-> 0, gifs_with_views |-> 0, total_views_today |-> 0,
         total_views_yesterday |-> 0, total_views_48h_ago |-> 0,
         views_difference |-> 0, views_difference_48h |-> 0,
         trend |-> "unknown", yesterday_data_available |-> FALSE,
         comparison_method |-> "none"]
    ELSE
    LET ts == TimestampBaseline(db)
        use24 == ts.total > 0
        h48 == ts.h48
        useDate == ~use24 /\ db.ydate > 0
        useGif == ~use24 /\ ~useDate /\ db.ygif
        yda == use24 \/ useDate \/ useGif
        yesterday == IF use24 THEN ts.total
                     ELSE IF useDate THEN db.ydate
                     ELSE IF useGif THEN db.ygif_sum
                     ELSE 0
        today == db.today
        trend == IF ~yda THEN "no_history"
                 ELSE IF today > yesterday THEN "increasing"
                 ELSE IF h48 > 0 /\ today > h48 THEN "increasing_48h"
                 ELSE IF today < yesterday THEN "decreasing"
                 ELSE IF db.gwv = 0 THEN "no_views"
                 ELSE "stagnant"
    IN  [total_gifs |-> n, gifs_with_views |-> db.gwv,
         total_views_today |-> today,
         total_views_yesterday |-> yesterday,
         total_views_48h_ago |-> h48,
         views_difference |-> today - yesterday,
         views_difference_48h |-> IF h48 > 0 THEN today - h48 ELSE 0,
         trend |-> trend, yesterday_data_available |-> yda,
         comparison_method |-> IF use24 THEN "24_hour" ELSE "date_based"]

\* get_realtime_channel_views_comparison: current is what
\* fetch_views_from_api_for_channel returned, previous the cached entry
\* (NoneV or Some(entry)); the entry cached afterwards is `current`
get_realtime_channel_views_comparison(current, previous) ==
    LET diff == current.total_views - Val(previous).total_views
    IN  [current_views |-> current,
         comparison |->
            IF IsNone(previous) THEN
                [current_total |-> current.total_views, previous_total |-> 0,
                 difference |-> 0, status |-> "no_previous"]
            ELSE
                [current_total |-> current.total_views,
                 previous_total |-> Val(previous).total_views,
                 difference |-> diff,
                 status |-> IF diff > 0 THEN "increasing"
                            ELSE IF diff < 0 THEN "decreasing"
                            ELSE "stagnant"]]

\* analyze_channel_status, lines 4343-4378: the view trend dict after the
\* real-time comparison rc has been merged into it
MergeRealtime(vta, rc) ==
    IF rc.comparison.status # "no_previous" THEN
        [vta EXCEPT
            !.total_views_today = rc.comparison.current_total,
            !.total_views_yesterday = rc.comparison.previous_total,
            !.views_difference = rc.comparison.difference,
            !.yesterday_data_available = TRUE,
            !.comparison_method = "realtime_cache",
            !.gifs_with_views = rc.current_views.fetched_count,
            !.trend = IF rc.comparison.status \in {"increasing", "decreasing"}
                      THEN rc.comparison.status ELSE "stagnant"]
    ELSE
        [vta EXCEPT
            !.total_views_today = rc.current_views.total_views,
            !.gifs_with_views = rc.current_views.fetched_count]

\* A first real-time block that leaves the cache file alone
CacheUntouched(prev, api, again, scrape) == prev

\* The cache entry after the first real-time block (lines 4265-4309): the
\* comparison caches the views it fetched (api); on a first check (nothing
\* cached before) the views are fetched again (line 4284) and, when that
\* returned nothing, scraped, and the scraped views are cached if any
CacheAfterFirstBlock(prev, api, again, scrape) ==
    IF IsNone(prev) /\ again.fetched_count = 0 /\ scrape.fetched_count > 0
    THEN Some(scrape) ELSE Some(api)

-----------------------------------------------------------------------------
(* Decision Engine: the rules of analyze_channel_status *)

\* total_uploads (lines 4047-4052)
TotalUploads(a) ==
    IF ~IsNone(a.uploads_from_page) THEN Val(a.uploads_from_page) ELSE a.gifs

\* Lines 4483-4609: views increased over 24h, or the trend is increasing_48h
IncreaseRules(a, v) ==
    LET use_48h_trend == v.trend = "increasing_48h"
                         /\ v.total_views_today = v.total_views_yesterday
        base_views == IF use_48h_trend THEN v.total_views_48h_ago
                      ELSE v.total_views_yesterday
        absolute_increase == IF use_48h_trend THEN v.views_difference_48h
                             ELSE v.views_difference
        sb_threshold == IF use_48h_trend THEN SHADOW_BAN_THRESHOLD_48H
                        ELSE SHADOW_BAN_THRESHOLD
        w_threshold == IF use_48h_trend THEN WORKING_THRESHOLD_48H
                       ELSE WORKING_THRESHOLD
        pct_tenth == base_views > 0 /\ PctAtLeastTenth(absolute_increase, base_views)
        pct_five == base_views > 0 /\ PctAtLeastFive(absolute_increase, base_views)
    IN  IF base_views >= LARGE_CHANNEL_VIEWS THEN
            IF pct_tenth \/ absolute_increase >= w_threshold THEN
                Verdict(a, "working", W3,
                        IF use_48h_trend THEN "L4530" ELSE "L4536")
            ELSE IF absolute_increase <= sb_threshold THEN
                Verdict(a, "shadow_banned", S3, "L4547")
            ELSE
                Verdict(a, "shadow_banned", S3, "L4558")
        ELSE
            IF absolute_increase >= w_threshold THEN
                \* only a reason is recorded: the status is left as it was
                Reason(a, IF use_48h_trend THEN "L4572" ELSE "L4578")
            ELSE IF absolute_increase <= sb_threshold THEN
                Verdict(a, "shadow_banned", S3, "L4589")
            ELSE IF pct_five THEN
                Reason(a, "L4599")
            ELSE
                Verdict(a, "shadow_banned", S3, "L4605")

\* Lines 4610-4742: views did not increase over 24h
NoIncreaseRules(a, v) ==
    LET h48 == v.total_views_48h_ago
        d48 == v.views_difference_48h
        today == v.total_views_today
    IN  IF h48 > 0 /\ today > h48 /\ d48 > 0 THEN
            IF d48 >= WORKING_THRESHOLD_48H
               \/ (h48 >= LARGE_CHANNEL_VIEWS /\ PctAtLeastTenth(d48, h48)) THEN
                Verdict(a, "working", W3, "L4627")
            ELSE IF d48 <= SHADOW_BAN_THRESHOLD_48H THEN
                Verdict(a, "shadow_banned", S3, "L4639")
            ELSE
                Verdict(a, "shadow_banned", S3, "L4650")
        ELSE IF today >= VERY_LARGE_CHANNEL_THRESHOLD THEN
            Verdict(a, "working", W3,
                    IF today = v.total_views_yesterday THEN "L4667" ELSE "L4677")
        ELSE IF today = v.total_views_yesterday THEN
            Verdict(a, "shadow_banned", S3, "L4696")
        ELSE IF v.views_difference < 0 THEN
            Verdict(a, "working", W3, "L4711")
        ELSE IF v.views_difference <= SHADOW_BAN_THRESHOLD THEN
            Verdict(a, "shadow_banned", S3, "L4727")
        ELSE
            Verdict(a, "working", W3, "L4738")

\* Lines 4744-4753: the legacy "70% of the gifs have no views" check
LegacyNoViews(a, v) ==
    IF v.total_gifs > 0
       /\ (v.total_gifs - v.gifs_with_views) * 100 >= NO_VIEWS_PERCENT * v.total_gifs
    THEN Verdict(a, "shadow_banned", S3, "L4752")
    ELSE a

\* Lines 4407-4753: the rules applied when view_trend_analysis is there
TrendRules(a, v, ar) ==
    IF v.gifs_with_views = 0 THEN
        Verdict(a, "shadow_banned", S3,
                IF ar.channel_id /\ ar.auto_check_views /\ ar.user_id
                   /\ ar.gifs_endpoint_404
                THEN "L4456" ELSE "L4464")
    ELSE
        LegacyNoViews(
            IF ~v.yesterday_data_available THEN
                Verdict(a, "unknown", U3, "L4478")
            ELSE IF v.total_views_today > v.total_views_yesterday
                    \/ v.trend = "increasing_48h" THEN
                IncreaseRules(a, v)
            ELSE
                NoIncreaseRules(a, v),
            v)

\* A scorer that calls a channel working from a score of 60 on
AlternativeAnalysisStrict(n, ev) ==
    LET score == (IF ev.active THEN 30 ELSE 0)
                 + (IF ev.trending THEN 25 ELSE 0)
                 + (IF n > 0 /\ ev.search = "good" THEN 25
                    ELSE IF n > 0 /\ ev.search = "zero" THEN 0 - 20
                    ELSE 0)
    IN  [composite_score |-> score,
         alternative_status |-> IF score >= 60 THEN "working"
                                ELSE IF score <= 0 THEN "shadow_banned"
                                ELSE "uncertain"]

\* alternative_detection_methods.comprehensive_alternative_analysis
\* (lines 237-288) on the findings of its methods: ev.active (recent upload
\* activity is 'active'), ev.trending (has_trending_gifs), ev.search the
\* general search sample: "good" (visibility_rate >= 40), "zero" (rate 0, or
\* an error dict, whose rate defaults to 0), "mid", "none" (None returned);
\* n is len(gif_ids)
comprehensive_alternative_analysis(n, ev) ==
    LET score == (IF ev.active THEN 30 ELSE 0)
                 + (IF ev.trending THEN 25 ELSE 0)
                 + (IF n > 0 /\ ev.search = "good" THEN 25
                    ELSE IF n > 0 /\ ev.search = "zero" THEN 0 - 20
                    ELSE 0)
    IN  [composite_score |-> score,
         alternative_status |-> IF score >= 50 THEN "working"
                                ELSE IF score <= 0 THEN "shadow_banned"
                                ELSE "uncertain"]

\* Lines 5041-5070, 5084-5113 and 4998-5027: the three copies of the verdict
\* taken from the fallback scorer; alt is NoneV when the scorer is not
\* available or raised; rw, rs, ru, rn are the reasons of the copy
AlternativeVerdict(a, alt, rw, rs, ru, rn) ==
    IF ~IsNone(alt) /\ Val(alt).alternative_status # "unknown" THEN
        IF Val(alt).alternative_status = "working"
           /\ Val(alt).composite_score >= 50 THEN
            Verdict(a, "working", W3, rw)
        ELSE IF Val(alt).alternative_status = "shadow_banned" THEN
            Verdict(a, "shadow_banned", S3, rs)
        ELSE
            Verdict(a, "unknown", U2, ru)
    ELSE
        Verdict(a, "unknown", U2, rn)

\* Lines 4894-4898
ScrapingFailed(ar) ==
    ar.channel_id /\ TotalUploads(ar) > 0 /\ ar.auto_check_views

\* Line 4919 reads the local accessible_gifs_count, which is only assigned at
\* line 4762, inside the other branch of `if view_trend_analysis`: Python
\* raises UnboundLocalError when the left operand of the `and` is true
NoTrendRaises(ar) ==
    /\ TotalUploads(ar) > 0
    /\ ar.user_id /\ ar.gifs_endpoint_404
    /\ Positive(ar.gifs_accessible_via_detail)
    /\ TotalUploads(ar) >= MANY_UPLOADS_THRESHOLD

\* Lines 4891-5114: the rules applied when view_trend_analysis is None
\* (and line 4919 does not raise)
NoTrendRules(a, ar, alt) ==
    LET total_uploads == TotalUploads(ar)
        acc == ar.gifs_accessible_via_detail
    IN  IF total_uploads <= 0 THEN a
        ELSE IF ar.user_id /\ ar.gifs_endpoint_404 THEN
            IF Positive(acc) THEN
                \* accessible_ratio >= 0.5, >= 0.3
                IF 2 * Val(acc) >= total_uploads THEN
                    Verdict(a, "working", W3, "L4932")
                ELSE IF 10 * Val(acc) >= 3 * total_uploads THEN
                    Verdict(a, "unknown", U2, "L4938")
                ELSE
                    Verdict(a, "shadow_banned", S2, "L4944")
            ELSE IF total_uploads >= MANY_UPLOADS_THRESHOLD THEN
                Verdict(a, "working", W3, "L4955")
            ELSE IF ScrapingFailed(ar) THEN
                IF ~IsNone(alt) /\ Val(alt).alternative_status = "working"
                   /\ Val(alt).composite_score >= 50 THEN
                    Verdict(a, "working", W3, "L4976")
                ELSE
                    Verdict(a, "shadow_banned", S3, "L4984")
            ELSE
                AlternativeVerdict(a, alt, "L5008", "L5015", "L5021", "L5027")
        ELSE IF ScrapingFailed(ar) THEN
            AlternativeVerdict(a, alt, "L5051", "L5058", "L5064", "L5070")
        ELSE
            AlternativeVerdict(a, alt, "L5094", "L5101", "L5107", "L5113")

\* The branches of lines 4891-5114 that ask the fallback scorer
AlternativeConsulted(ar) ==
    /\ TotalUploads(ar) > 0
    /\ ~(/\ ar.user_id /\ ar.gifs_endpoint_404
         /\ \/ Positive(ar.gifs_accessible_via_detail)
            \/ TotalUploads(ar) >= MANY_UPLOADS_THRESHOLD)

\* Lines 5132-5168: views_stagnant of the final decision
ViewsStagnant(vta) ==
    /\ ~IsNone(vta)
    /\ \/ Val(vta).views_difference = 0
       \/ /\ Val(vta).views_difference > 0
          /\ Val(vta).views_difference < WORKING_THRESHOLD
          /\ Val(vta).total_views_yesterday <= 0
          /\ Val(vta).views_difference <= SHADOW_BAN_THRESHOLD

\* Variants of the final combined decision, each with one rule changed:
\* stagnation is looked at before visibility
FinalDecisionStagnantFirst(a, sv, vis, vta) ==
    IF ~a.banned /\ ~IsNone(sv) THEN
        IF ~vis \/ (~IsNone(vta) /\ Val(vta).yesterday_data_available
                    /\ ViewsStagnant(vta)) THEN
            Verdict(a, "shadow_banned", S3, "L5230")
        ELSE
            Verdict(a, "working", W3, "L5215")
    ELSE a

\* a 'working' verdict of the trend rules survives a failed probe
FinalDecisionSignificantWins(a, sv, vis, vta) ==
    IF ~a.banned /\ ~IsNone(sv) THEN
        IF vis THEN Verdict(a, "working", W3, "L5215")
        ELSE IF a.status = "working" THEN a
        ELSE Verdict(a, "shadow_banned", S3, "L5230")
    ELSE a

\* decreasing views are left to the trend rules
FinalDecisionDecreaseSpared(a, sv, vis, vta) ==
    IF ~a.banned /\ ~IsNone(sv) THEN
        IF vis THEN Verdict(a, "working", W3, "L5215")
        ELSE IF ~IsNone(vta) /\ Val(vta).views_difference < 0 THEN a
        ELSE Verdict(a, "shadow_banned", S3, "L5230")
    ELSE a

\* without a baseline an invisible channel is left to the trend rules
FinalDecisionNeedsBaseline(a, sv, vis, vta) ==
    IF ~a.banned /\ ~IsNone(sv) THEN
        IF vis THEN Verdict(a, "working", W3, "L5215")
        ELSE IF ~IsNone(vta) /\ ~Val(vta).yesterday_data_available THEN a
        ELSE Verdict(a, "shadow_banned", S3, "L5230")
    ELSE a

\* the verdict of the trend rules is final
FinalDecisionSkipped(a, sv, vis, vta) == a

\* Lines 5124-5245: the final combined decision
FinalDecision(a, sv, vis, vta) ==
    IF ~a.banned /\ ~IsNone(sv) THEN
        IF vis THEN
            Verdict(a, "working", W3, "L5215")
        ELSE IF ~vis \/ (~IsNone(vta) /\ Val(vta).yesterday_data_available
                         /\ ViewsStagnant(vta)) THEN
            Verdict(a, "shadow_banned", S3, "L5230")
        ELSE IF vis THEN
            Verdict(a, "working", W2, "L5238")
        ELSE
            Verdict(a, "shadow_banned", S2, "L5244")
    ELSE a

-----------------------------------------------------------------------------
(* The inputs and the answers of the environment *)

\* len(all_gifs_list): none, a few, MANY_UPLOADS_THRESHOLD of them
GifCounts == {0, 5, 50}

\* uploads_from_page / views_from_page: not extracted, 0, a positive count
PageUploads == {NoneV, Some(0), Some(60)}
PageViews == {NoneV, Some(0), Some(9000)}

\* gifs_accessible_via_detail: of 5 uploads, 3 are at least 50%, 2 at least
\* 30%, 1 less than 30%
AccessibleCounts == {NoneV, Some(0), Some(1), Some(2), Some(3)}

\* The arguments of a call (user_data, user_id and channel_id by their
\* truthiness, all_gifs_list by its length)
ArgSets ==
    [user_data : BOOLEAN, gifs : GifCounts, user_id : BOOLEAN,
     gifs_endpoint_404 : BOOLEAN, channel_id : BOOLEAN,
     auto_check_views : BOOLEAN,
     gifs_accessible_via_detail : AccessibleCounts,
     uploads_from_page : PageUploads, views_from_page : PageViews]

\* A (fetched or cached) views observation of the channel
Views(total, count) == [total_views |-> total, fetched_count |-> count]

\* The entry of the channel in channel_views_cache.json before the call
CacheEntries == {NoneV, Some(Views(5000, 5))}

\* What fetch_views_from_api_for_channel returns for n gif ids: nothing
\* fetched (also the answer without an API key), or the views of all of them
ApiAnswers(n) ==
    IF n = 0 THEN {Views(0, 0)}
    ELSE {Views(0, 0), Views(4995, n), Views(5000, n), Views(5060, n),
          Views(7000, n)}

\* What scraping the gif pages yields (lines 4290-4304)
ScrapeAnswers(n) ==
    IF n = 0 THEN {Views(0, 0)} ELSE {Views(0, 0), Views(5000, n)}

\* Baselines of the snapshot store and the change of the total since
BaselineViews == {1000, 50000, 100000, 1000000, 10000000}
ViewDeltas == {0 - 5, 0, 20, 60, 100, 1000}

\* The answers of the snapshot store for n gif ids (see analyze_view_trends);
\* has_history is the answer of the loop of lines 4253-4258
DbRecord(hh, y24, h48, ydate, ygif, ygif_sum, gwv, today) ==
    [has_history |-> hh, y24 |-> y24, h48 |-> h48, ydate |-> ydate,
     ygif |-> ygif, ygif_sum |-> ygif_sum, gwv |-> gwv, today |-> today]

DbAnswers(n) ==
    IF n = 0 THEN {DbRecord(FALSE, 0, 0, 0, FALSE, 0, 0, 0)}
    ELSE
        \* no row at all; rows of today only
        {DbRecord(FALSE, 0, 0, 0, FALSE, 0, 0, 0),
         DbRecord(TRUE, 0, 0, 0, FALSE, 0, n, 5000)}
        \* a total about 24 hours old, with or without one 48 hours old
        \cup UNION {{DbRecord(TRUE, y, h, 0, FALSE, 0, n, y + d) :
                        d \in ViewDeltas, h \in {0, y - 500}} :
                     y \in BaselineViews}
        \* the total 48 hours old above today's; a single gif with rows
        \cup {DbRecord(TRUE, y, y + 2000, 0, FALSE, 0, n, y) : y \in {1000}}
        \cup {DbRecord(TRUE, y, 0, 0, FALSE, 0, 1, y + 1000) : y \in {100000}}
        \* rows 48 hours old, and newer rows holding 0 views 24 hours ago
        \cup {DbRecord(TRUE, 0, 500, 0, FALSE, 0, n, 5000),
              DbRecord(TRUE, 0, 500, 1000, FALSE, 0, n, 1060)}
        \* a total 24 hours old, and no row of these gifs in the last 2 days
        \cup {DbRecord(FALSE, y, 0, 0, FALSE, 0, 0, 0) : y \in {1000}}
        \* a total dated yesterday only; rows dated yesterday per gif only
        \cup {DbRecord(TRUE, 0, 0, 1000, FALSE, 0, n, 1000 + d) :
                d \in ViewDeltas}
        \cup {DbRecord(TRUE, 0, 0, 0, TRUE, 1000, n, 1000 + d) :
                d \in {0, 1000}}

\* What the fallback scorer finds
AltEvidence ==
    [active : BOOLEAN, trending : BOOLEAN,
     search : {"good", "zero", "mid", "none"}]

\* alternative_analysis: None (module missing, or the call raised), or the
\* scorer's result
AltAnswers(n) ==
    {NoneV} \cup {Some(comprehensive_alternative_analysis(n, ev)) :
                     ev \in AltEvidence}

\* The cache entries the first real-time block can leave
FirstBlockCaches(prev, n) ==
    {CacheAfterFirstBlock(prev, api1, again, scrape) :
        api1 \in ApiAnswers(n), again \in ApiAnswers(n),
        scrape \in ScrapeAnswers(n)}

\* Number of matching gifs the username search of lines 4121-4148 returns
RefetchCounts == {0, 5}

-----------------------------------------------------------------------------
(* analyze_channel_status, step by step *)

\* Lines 4076-4078: page_shows_no_metrics
PageShowsNoMetrics(ar) ==
    IsZero(ar.uploads_from_page) /\ IsZero(ar.views_from_page)

\* Line 4101 without its test of user_data
NotFoundInApiAnyUser(ar) ==
    /\ TotalUploads(ar) = 0
    /\ IsNone(ar.uploads_from_page) /\ IsNone(ar.views_from_page)

\* Line 4101: no data from the API and no metrics from the page
NotFoundInApi(ar) ==
    /\ ~ar.user_data
    /\ TotalUploads(ar) = 0
    /\ IsNone(ar.uploads_from_page) /\ IsNone(ar.views_from_page)

\* Lines 4038-4159: the analysis dict, total_uploads, the existence checks
\* (STEP 1 and Factor 1), gif_ids and the username search for them
Existence ==
    /\ pc = "start"
    /\ LET up == args.uploads_from_page
           vp == args.views_from_page
       IN  IF PageShowsNoMetrics(args) THEN
               /\ analysis' = Verdict(analysis, "banned", B3, "L4087")
               /\ pc' = "returned"
               /\ UNCHANGED n_gifs
           ELSE IF NotFoundInApi(args) THEN
               /\ analysis' = Verdict(analysis, "banned", B3, "L4107")
               /\ pc' = "returned"
               /\ UNCHANGED n_gifs
           ELSE
               /\ \E fetched \in RefetchCounts :
                    n_gifs' = IF args.gifs = 0 /\ Positive(up) /\ Positive(vp)
                                 /\ args.channel_id
                              THEN fetched ELSE args.gifs
               /\ IF n_gifs' = 0 /\ ~(Positive(up) \/ Positive(vp)) THEN
                      /\ analysis' = [Reason(analysis, "L4158")
                                         EXCEPT !.status = "unknown"]
                      /\ pc' = "returned"
                  ELSE
                      /\ pc' = "probe"
                      /\ UNCHANGED analysis
    /\ UNCHANGED <<args, search_visibility, visible_in_search,
                   view_trend_analysis, cache>>
    /\ UNCHANGED <<detectVars, storeVars, probeVars, sourceVars>>

\* Lines 4171-4242: the search probe (check_gifs_one_by_one_with_tags, or
\* check_channel_in_search_results when there is no gif); a probe that
\* returns None or an error, or raises, leaves search_visibility None
ProbeSearch ==
    /\ pc = "probe"
    /\ IF args.channel_id THEN
           \E answer \in {"failed", "visible", "not_visible"} :
               IF answer = "failed" THEN
                   UNCHANGED <<search_visibility, visible_in_search>>
               ELSE
                   /\ visible_in_search' = (answer = "visible")
                   /\ search_visibility' =
                          Some([visible_in_search |-> answer = "visible"])
       ELSE UNCHANGED <<search_visibility, visible_in_search>>
    /\ pc' = "trend"
    /\ UNCHANGED <<args, n_gifs, view_trend_analysis, analysis, cache>>
    /\ UNCHANGED <<detectVars, storeVars, probeVars, sourceVars>>

\* Lines 4249-4399, when nothing raises: the first real-time block, then
\* analyze_view_trends, then the second real-time comparison
ViewTrendsDone ==
    /\ pc = "trend"
    /\ args.channel_id
    /\ \E db \in DbAnswers(n_gifs) :
          LET first == ~db.has_history /\ args.auto_check_views
              vta == analyze_view_trends(n_gifs, db)
              second == ~vta.yesterday_data_available /\ args.auto_check_views
          IN  /\ snapshot_store' = Some(db)
              /\ \E cache1 \in (IF first THEN FirstBlockCaches(cache, n_gifs)
                                 ELSE {cache}) :
                    IF second THEN
                        \E api2 \in ApiAnswers(n_gifs) :
                            /\ view_trend_analysis' = Some(MergeRealtime(vta,
                                   get_realtime_channel_views_comparison(
                                       api2, cache1)))
                            /\ cache' = Some(api2)
                    ELSE
                        /\ view_trend_analysis' = Some(vta)
                        /\ cache' = cache1
    /\ pc' = "rules"
    /\ UNCHANGED <<args, n_gifs, search_visibility, visible_in_search,
                   analysis, sampled_gifs, alternative_analysis>>
    /\ UNCHANGED <<detectVars, storeVars, probeVars, otherVars>>

\* Lines 4397-4399: an exception inside the block (the store fails at line
\* 4255, or later, at line 4333, after the first real-time block; without an
\* API key line 4287 raises KeyError with the comparison already cached)
\* leaves view_trend_analysis None; without channel_id the block is skipped
ViewTrendsNone ==
    /\ pc = "trend"
    /\ IF args.channel_id THEN
           \/ UNCHANGED cache
           \/ /\ args.auto_check_views
              /\ cache' \in FirstBlockCaches(cache, n_gifs)
       ELSE UNCHANGED cache
    /\ view_trend_analysis' = NoneV
    /\ pc' = "rules"
    /\ UNCHANGED <<args, n_gifs, search_visibility, visible_in_search,
                   analysis>>
    /\ UNCHANGED <<detectVars, storeVars, probeVars, sourceVars>>

\* Lines 4407-5252: the trend rules (or the rules without trend), then the
\* final combined decision, then `return analysis`; a branch that asks the
\* fallback scorer assigns alternative_analysis (None, or the scorer's dict)
Decide ==
    /\ pc = "rules"
    /\ ~(IsNone(view_trend_analysis) /\ NoTrendRaises(args))
    /\ LET consulted == IsNone(view_trend_analysis)
                        /\ AlternativeConsulted(args)
       IN  \E alt \in (IF consulted THEN AltAnswers(n_gifs) ELSE {NoneV}) :
             LET ruled == IF IsNone(view_trend_analysis)
                          THEN NoTrendRules(analysis, args, alt)
                          ELSE TrendRules(analysis, Val(view_trend_analysis),
                                          args)
             IN  /\ analysis' = FinalDecision(ruled, search_visibility,
                                              visible_in_search,
                                              view_trend_analysis)
                 /\ alternative_analysis' = IF consulted THEN Some(alt)
                                            ELSE NoneV
    /\ pc' = "returned"
    /\ UNCHANGED <<args, n_gifs, search_visibility, visible_in_search,
                   view_trend_analysis, cache>>
    /\ UNCHANGED <<sampled_gifs, snapshot_store>>
    /\ UNCHANGED <<detectVars, storeVars, probeVars, otherVars>>

\* Line 4919: UnboundLocalError leaves the function
DecideRaises ==
    /\ pc = "rules"
    /\ IsNone(view_trend_analysis)
    /\ NoTrendRaises(args)
    /\ pc' = "raised"
    /\ UNCHANGED <<args, n_gifs, search_visibility, visible_in_search,
                   view_trend_analysis, analysis, cache>>
    /\ UNCHANGED <<detectVars, storeVars, probeVars, sourceVars>>

-----------------------------------------------------------------------------
(* detect_channel_status *)

\* What the Content Source answers to the requests of one fetch_channel_info
\* call: every request times out, is refused (connection error) or gets a
\* non-200 response; the search answers 200 without any gif of the channel;
\* the first page is served and the next request times out; or the gifs of
\* the channel are served, with their view counts
SourceFailures == {"timeout", "connection", "non200"}

SourceAnswers ==
    {[kind |-> k, gifs |-> 0, views |-> 0] :
        k \in SourceFailures \cup {"empty", "partial"}}
    \cup {[kind |-> "ok", gifs |-> g, views |-> v] :
            g \in {1, 10, 15}, v \in {0, 7000}}

\* fetch_channel_info (lines 152-572): a request exception is caught at
\* line 565 with `exists` as it was; without gifs lines 509-516 answer
\* "not found"
fetch_channel_info(src) ==
    IF src.kind \in {"timeout", "connection"} THEN
        [exists |-> FALSE, total_gifs |-> 0, total_views |-> 0,
         error |-> "Request error"]
    ELSE IF src.kind = "partial" THEN
        [exists |-> TRUE, total_gifs |-> 0, total_views |-> 0,
         error |-> "Request error"]
    ELSE IF src.kind \in {"non200", "empty"} \/ src.gifs = 0 THEN
        [exists |-> FALSE, total_gifs |-> 0, total_views |-> 0,
         error |-> "Channel not found"]
    ELSE
        [exists |-> TRUE, total_gifs |-> src.gifs, total_views |-> src.views,
         error |-> "None"]

\* check_banned_channel (lines 575-659) on the fetched channel info; the
\* errors of fetch_channel_info name no 404 or 403 when the channel exists
\* with gifs (lines 642-651)
check_banned_channel(info) ==
    IF ~info.exists THEN
        [is_banned |-> TRUE, reason |-> "L616"]
    ELSE IF info.total_gifs = 0 THEN
        [is_banned |-> TRUE, reason |-> "L626"]
    ELSE
        [is_banned |-> FALSE, reason |-> "L657"]

\* Line 1198: the sample of check_shadow_banned_channel
SAMPLE_GIFS == 15
GifsChecked(n) == IF n < SAMPLE_GIFS THEN n ELSE SAMPLE_GIFS

\* Percentage under which a channel is shadow banned (line 1255)
VISIBILITY_PERCENT == 30

\* check_shadow_banned_channel (lines 1150-1264) on n gifs of which `found`
\* were found in search (a gif whose check fails counts as not found)
check_shadow_banned_channel(n, found) ==
    IF GifsChecked(n) = 0 THEN
        [is_shadow_banned |-> TRUE, reason |-> "L1203"]
    ELSE IF found * 100 < VISIBILITY_PERCENT * GifsChecked(n) THEN
        [is_shadow_banned |-> TRUE, reason |-> "L1257"]
    ELSE
        [is_shadow_banned |-> FALSE, reason |-> "L1261"]

\* check_working_channel (lines 1267-1339): fetches the channel again and
\* probes the gifs it was given again
check_working_channel(info, n, found) ==
    IF check_banned_channel(info).is_banned THEN
        [is_working |-> FALSE, reason |-> "L1308"]
    ELSE IF check_shadow_banned_channel(n, found).is_shadow_banned THEN
        [is_working |-> FALSE, reason |-> "L1322"]
    ELSE
        [is_working |-> TRUE, reason |-> "L1336"]

\* How many of the sampled gifs the search probe finds; with every search
\* request failing none is found
FoundCounts(n) == {0, 1, 2, 3, GifsChecked(n)} \cap 0..GifsChecked(n)

\* The result dict: status, and summary.reason (NoneV while summary is {});
\* a summary without total_gifs and total_views
Result(st, reason) ==
    [status |-> st, reason |-> reason, total_gifs |-> NoneV,
     total_views |-> NoneV]

\* A result whose summary carries total_gifs and total_views
Summary(st, reason, g, v) ==
    [status |-> st, reason |-> reason, total_gifs |-> Some(g),
     total_views |-> Some(v)]

\* Lines 1364-1391: extract_channel_username_from_url returns None for an
\* empty input and for a URL without a channel name
DetectStart ==
    /\ dpc = "start"
    /\ \E channel_input \in {"empty", "unparsable", "url", "username"} :
          IF channel_input \in {"empty", "unparsable"} THEN
              /\ dres' = Some(Result("error", Some("L1373")))
              /\ dpc' = "returned"
          ELSE
              /\ dres' = Some(Result("unknown", NoneV))
              /\ dpc' = "banned_check"
    /\ UNCHANGED denv
    /\ UNCHANGED <<analyzeVars, storeVars, probeVars, sourceVars>>

\* A banned check whose verdict is not terminal: the evaluation goes on to
\* the shadow banned check
DetectBannedContinues ==
    /\ dpc = "banned_check"
    /\ \E src \in SourceAnswers :
          LET info == fetch_channel_info(src)
              banned_result == check_banned_channel(info)
          IN  /\ denv' = [calls |-> <<src.kind>>, info |-> info, found |-> 0]
              /\ dres' = IF banned_result.is_banned
                           THEN Some(Summary("banned",
                                             Some(banned_result.reason), 0, 0))
                         ELSE dres
              /\ dpc' = "shadow_check"
    /\ UNCHANGED <<analyzeVars, storeVars, probeVars, sourceVars>>

\* Lines 1394-1433: step 1, the banned check
DetectBanned ==
    /\ dpc = "banned_check"
    /\ \E src \in SourceAnswers :
          LET info == fetch_channel_info(src)
              banned_result == check_banned_channel(info)
          IN  /\ denv' = [calls |-> <<src.kind>>, info |-> info, found |-> 0]
              /\ IF banned_result.is_banned THEN
                     /\ dres' = Some(Summary("banned",
                                             Some(banned_result.reason), 0, 0))
                     /\ dpc' = "returned"
                 ELSE IF info.total_gifs = 0 /\ info.total_views = 0 THEN
                     /\ dres' = Some(Summary("banned", Some("L1429"), 0, 0))
                     /\ dpc' = "returned"
                 ELSE
                     /\ dpc' = "shadow_check"
                     /\ UNCHANGED dres
    /\ UNCHANGED <<analyzeVars, storeVars, probeVars, sourceVars>>

\* Lines 1435-1452: step 3, the shadow banned check
DetectShadowBanned ==
    /\ dpc = "shadow_check"
    /\ \E search \in {"ok"} \cup SourceFailures,
          found \in FoundCounts(denv.info.total_gifs) :
          LET shadow_banned_result ==
                  check_shadow_banned_channel(denv.info.total_gifs, found)
          IN  /\ search \in SourceFailures => found = 0
              /\ denv' = [denv EXCEPT !.calls = Append(@, search),
                                      !.found = found]
              /\ IF shadow_banned_result.is_shadow_banned THEN
                     /\ dres' = Some(Summary("shadow_banned",
                                             Some(shadow_banned_result.reason),
                                             denv.info.total_gifs,
                                             denv.info.total_views))
                     /\ dpc' = "returned"
                 ELSE
                     /\ dpc' = "working_check"
                     /\ UNCHANGED dres
    /\ UNCHANGED <<analyzeVars, storeVars, probeVars, sourceVars>>

\* Lines 1454-1477: step 4, the working check
DetectWorking ==
    /\ dpc = "working_check"
    /\ \E src \in SourceAnswers, search \in {"ok"} \cup SourceFailures,
          found \in FoundCounts(denv.info.total_gifs) :
          LET working_result ==
                  check_working_channel(fetch_channel_info(src),
                                        denv.info.total_gifs, found)
          IN  /\ search \in SourceFailures => found = 0
              /\ denv' = [denv EXCEPT !.calls = @ \o <<src.kind, search>>]
              /\ dres' = IF working_result.is_working
                         THEN Some(Summary("working",
                                           Some(working_result.reason),
                                           denv.info.total_gifs,
                                           denv.info.total_views))
                         ELSE Some(Summary("unknown", Some("L1474"),
                                           denv.info.total_gifs,
                                           denv.info.total_views))
    /\ dpc' = "returned"
    /\ UNCHANGED <<analyzeVars, storeVars, probeVars, sourceVars>>

\* The except clause reporting 'unknown' instead of 'error'
DetectExceptionUnknown ==
    /\ dpc \in {"banned_check", "shadow_check", "working_check"}
    /\ dres' = Some(Result("unknown", Some("L1487")))
    /\ dpc' = "returned"
    /\ UNCHANGED denv
    /\ UNCHANGED <<analyzeVars, storeVars, probeVars, sourceVars>>

\* Lines 1479-1490: an exception raised inside the try block
DetectException ==
    /\ dpc \in {"banned_check", "shadow_check", "working_check"}
    /\ dres' = Some(Result("error", Some("L1487")))
    /\ dpc' = "returned"
    /\ UNCHANGED denv
    /\ UNCHANGED <<analyzeVars, storeVars, probeVars, sourceVars>>

NoCalls == [calls |-> <<>>,
            info |-> [exists |-> FALSE, total_gifs |-> 0, total_views |-> 0,
                      error |-> "None"],
            found |-> 0]

AnalyzeIdle ==
    /\ pc = "idle"
    /\ args = NoneV
    /\ n_gifs = 0
    /\ search_visibility = NoneV
    /\ visible_in_search = FALSE
    /\ view_trend_analysis = NoneV
    /\ analysis = InitialAnalysis
    /\ cache = NoneV

DetectIdle == dpc = "idle" /\ dres = NoneV /\ denv = NoCalls

ProbeIdle ==
    /\ gif_checks = <<>> /\ tag_futures = <<>>
    /\ search_hits = <<>> /\ late_requests = {}
    /\ sampled_gifs = <<>> /\ snapshot_store = NoneV
    /\ alternative_analysis = NoneV

ShadowIdle == shadow_check = NoneV
ScanIdle == search_scan = NoneV
CacheFileIdle == cache_file = NoneV /\ cachers = <<>>
TrendIdle == timed_rows = {} /\ trend_call = NoneV
OtherIdle ==
    /\ ShadowIdle /\ cache_before = NoneV /\ ScanIdle /\ CacheFileIdle
    /\ TrendIdle

\* The threads that may run store_view_count at the same time (workers of
\* update_gif_views_batch, or two evaluations), and a thread that runs none
Writers == {"w1", "w2"}
IdleWriter == [pc |-> "idle", gif_id |-> "", view_count |-> 0,
               date |-> NoneV, recorded_date |-> "", row_id |-> 0,
               replaced |-> {}]
WritersIdle == writers = [w \in Writers |-> IdleWriter] /\ db_lock = NoneV

StoreIdle ==
    /\ view_history = {} /\ next_rowid = 1 /\ store_calls = <<>>
    /\ WritersIdle

InitDetect ==
    /\ dpc = "start"
    /\ dres = NoneV
    /\ denv = NoCalls
    /\ AnalyzeIdle /\ StoreIdle /\ ProbeIdle /\ OtherIdle

NextDetect ==
    \/ DetectStart
    \/ DetectBanned
    \/ DetectShadowBanned
    \/ DetectWorking
    \/ DetectException

SpecDetect == InitDetect /\ [][NextDetect]_vars

-----------------------------------------------------------------------------
(* The snapshot store: table view_history and store_view_count *)

\* Bounds: number of store_view_count calls, largest view count
MaxCalls == 3
MaxViewCount == 1

GifIds == {"g1", "g2"}
Dates == {"2024-05-01", "2024-05-02"}

\* datetime.now().date() (line 2353)
Today == "2024-05-02"

\* UNIQUE(gif_id, recorded_date) (line 90): the rows of the table that
\* conflict with a row for (g, d)
Conflicting(rows, g, d) ==
    {r \in rows : r.gif_id = g /\ r.recorded_date = d}

\* A plain INSERT that SQLite would accept without the UNIQUE constraint
PlainInsert(rows, id, g, v, d) ==
    rows \cup {[id |-> id, gif_id |-> g, view_count |-> v, recorded_date |-> d]}

\* INSERT OR REPLACE INTO view_history (gif_id, view_count, recorded_date)
\* (lines 2358-2361): the conflicting rows are deleted, then the row is
\* inserted with the next AUTOINCREMENT id
InsertOrReplace(rows, id, g, v, d) ==
    (rows \ Conflicting(rows, g, d))
    \cup {[id |-> id, gif_id |-> g, view_count |-> v, recorded_date |-> d]}

\* store_view_count(gif_id, view_count, recorded_date=None), lines 2350-2364
store_view_count(g, v, date) ==
    LET recorded_date == IF IsNone(date) THEN Today ELSE Val(date)
    IN  /\ view_history' = InsertOrReplace(view_history, next_rowid, g, v,
                                           recorded_date)
        /\ next_rowid' = next_rowid + 1
        /\ store_calls' = Append(store_calls,
                               [gif_id |-> g, view_count |-> v,
                                recorded_date |-> recorded_date])

StoreViewCount ==
    /\ Len(store_calls) < MaxCalls
    /\ \E g \in GifIds, v \in 0..MaxViewCount,
          date \in {NoneV} \cup {Some(d) : d \in Dates} :
          store_view_count(g, v, date)
    /\ UNCHANGED <<writers, db_lock>>
    /\ UNCHANGED <<analyzeVars, detectVars, probeVars, sourceVars>>

InitStore ==
    /\ view_history = {}
    /\ next_rowid = 1
    /\ store_calls = <<>>
    /\ WritersIdle
    /\ AnalyzeIdle /\ DetectIdle /\ ProbeIdle /\ OtherIdle

NextStore == StoreViewCount

SpecStore == InitStore /\ [][NextStore]_vars

-----------------------------------------------------------------------------
(* store_view_count run by several threads, each on its own connection *)

\* A connection that would write without taking the write lock
WriteLockIgnored(w) == TRUE

\* sqlite3.connect(DB_NAME, timeout=20.0) (line 109): a statement that needs
\* the write lock waits while another connection holds it
WriteLockFree(w) == IsNone(db_lock)

\* lines 2352-2356: recorded_date defaults to today; the thread opens its
\* own connection and cursor
WriterConnect(w) ==
    /\ writers[w].pc = "called"
    /\ writers' = [writers EXCEPT
          ![w].pc = "connected",
          ![w].recorded_date = IF IsNone(writers[w].date) THEN Today
                               ELSE Val(writers[w].date)]
    /\ UNCHANGED <<view_history, next_rowid, store_calls, db_lock>>
    /\ UNCHANGED <<analyzeVars, detectVars, probeVars, sourceVars>>

\* cursor.execute(INSERT OR REPLACE ...) (lines 2358-2361): sqlite3 opens a
\* transaction, the statement takes the write lock and works on the committed
\* table: it deletes the conflicting rows and inserts the new row, and none
\* of it is visible to the other connections before the commit
WriterExecute(w) ==
    /\ writers[w].pc = "connected"
    /\ WriteLockFree(w)
    /\ LET me == writers[w]
           after == InsertOrReplace(view_history, next_rowid, me.gif_id,
                                    me.view_count, me.recorded_date)
       IN  writers' = [writers EXCEPT
              ![w].pc = "executed",
              ![w].row_id = next_rowid,
              ![w].replaced = view_history \ after]
    /\ db_lock' = Some(w)
    /\ UNCHANGED <<view_history, next_rowid, store_calls>>
    /\ UNCHANGED <<analyzeVars, detectVars, probeVars, sourceVars>>

\* conn.commit() (line 2363): the transaction's changes reach the table and
\* the write lock, if this connection holds it, is released
WriterCommit(w) ==
    /\ writers[w].pc = "executed"
    /\ LET me == writers[w]
       IN  /\ view_history' = (view_history \ me.replaced) \cup
                {[id |-> me.row_id, gif_id |-> me.gif_id,
                  view_count |-> me.view_count,
                  recorded_date |-> me.recorded_date]}
           /\ next_rowid' = IF me.row_id >= next_rowid THEN me.row_id + 1
                            ELSE next_rowid
           /\ store_calls' = Append(store_calls,
                  [gif_id |-> me.gif_id, view_count |-> me.view_count,
                   recorded_date |-> me.recorded_date])
    /\ writers' = [writers EXCEPT ![w].pc = "committed"]
    /\ db_lock' = IF db_lock = Some(w) THEN NoneV ELSE db_lock
    /\ UNCHANGED <<analyzeVars, detectVars, probeVars, sourceVars>>

\* conn.close() (line 2364) and return
WriterClose(w) ==
    /\ writers[w].pc = "committed"
    /\ writers' = [writers EXCEPT ![w].pc = "done"]
    /\ UNCHANGED <<view_history, next_rowid, store_calls, db_lock>>
    /\ UNCHANGED <<analyzeVars, detectVars, probeVars, sourceVars>>

WriterStep(w) ==
    \/ WriterConnect(w)
    \/ WriterExecute(w)
    \/ WriterCommit(w)
    \/ WriterClose(w)

\* Every thread has been handed a call store_view_count(g, v, date)
InitWriters ==
    /\ view_history = {} /\ next_rowid = 1 /\ store_calls = <<>>
    /\ db_lock = NoneV
    /\ writers \in [Writers ->
          {[IdleWriter EXCEPT !.pc = "called", !.gif_id = g,
                              !.view_count = v, !.date = date] :
             g \in GifIds, v \in 0..MaxViewCount,
             date \in {NoneV} \cup {Some(d) : d \in Dates}}]
    /\ AnalyzeIdle /\ DetectIdle /\ ProbeIdle /\ OtherIdle

NextWriters == \E w \in Writers : WriterStep(w)

\* The thread pool runs every submitted call, and a thread that holds the
\* write lock has only its commit left to do
SpecWriters ==
    InitWriters /\ [][NextWriters]_vars
    /\ \A w \in Writers : WF_vars(WriterStep(w))

-----------------------------------------------------------------------------
(* The tag probes of _check_single_gif_visibility, one call per sampled item,
   the calls running side by side in check_shadow_banned_channel's pool *)

\* Bound: pages of 100 results a tag search scans (offsets 0..2400 in the
\* source, lines 788-790)
MaxPages == 2

\* ThreadPoolExecutor(max_workers=3) (line 1098)
TAG_WORKERS == 3

\* The sampled items checked side by side (lines 1219-1221) and the number
\* of tags of each (tags[:10], line 1057)
Items == {1, 2}
TagCount == <<4, 1>>
MaxTagCount == TagCount[1]
Probes == {f \in Items \X (1..MaxTagCount) : f[2] <= TagCount[f[1]]}
ProbesOf(i) == {f \in Probes : f[1] = i}

\* A future of tag_futures is done (finished or cancelled), Future.done()
FutureDone(f) == tag_futures[f].state \in {"finished", "cancelled"}

\* The futures that a cancellation in the call for item i would reach: every
\* pool in the program
CancelTargetsAnyItem(i) == Items

\* The futures that a cancellation in the call for item i reaches: those of
\* its own tag_futures, a local of the call (line 1099)
CancelTargets(i) == {i}

\* A worker of the item's pool takes the next queued probe (the queue is
\* first-in first-out, a cancelled future is dropped when taken)
ProbeStart(i, k) ==
    /\ <<i, k>> \in Probes
    /\ tag_futures[<<i, k>>].state = "pending"
    /\ \A j \in 1..(k - 1) : tag_futures[<<i, j>>].state # "pending"
    /\ Cardinality({f \in ProbesOf(i) : tag_futures[f].state = "running"})
          < TAG_WORKERS
    /\ tag_futures' = [tag_futures EXCEPT ![<<i, k>>].state = "running",
                                          ![<<i, k>>].page = 1]
    /\ UNCHANGED <<gif_checks, search_hits, late_requests>>
    /\ UNCHANGED <<analyzeVars, detectVars, storeVars, sourceVars>>

\* check_channel_gifs_in_search_results (lines 798-887): one search request
\* for the current page; a result owned by the channel ends the probe with
\* True, the last page without one ends it with False
ProbeRequest(i, k) ==
    /\ <<i, k>> \in Probes
    /\ tag_futures[<<i, k>>].state = "running"
    /\ LET f == <<i, k>>
           page == tag_futures[f].page
       IN  tag_futures' = [tag_futures EXCEPT ![f] =
              IF search_hits[f] = page
                THEN [state |-> "finished", page |-> page, found |-> TRUE]
              ELSE IF page = MaxPages
                THEN [state |-> "finished", page |-> page, found |-> FALSE]
              ELSE [state |-> "running", page |-> page + 1, found |-> FALSE]]
    /\ late_requests' =
          IF gif_checks[i].pc \in {"exit", "returned"} /\ gif_checks[i].found
            THEN late_requests \cup {i} ELSE late_requests
    /\ UNCHANGED <<gif_checks, search_hits>>
    /\ UNCHANGED <<analyzeVars, detectVars, storeVars, sourceVars>>

\* A collection loop without the early exit, in which found_in_any_tag holds
\* the result of the future collected last
GifCheckCollectLastWins(i) ==
    /\ gif_checks[i].pc = "collect"
    /\ \E f \in ProbesOf(i) :
          /\ FutureDone(f)
          /\ f[2] \notin gif_checks[i].collected
          /\ LET seen == gif_checks[i].collected \cup {f[2]}
                 hit == tag_futures[f].state = "finished"
                        /\ tag_futures[f].found
             IN  gif_checks' = [gif_checks EXCEPT ![i] =
                    [pc |-> IF seen = 1..TagCount[i] THEN "exit"
                            ELSE "collect",
                     found |-> hit, cur |-> 0, collected |-> seen]]
    /\ UNCHANGED <<tag_futures, search_hits, late_requests>>
    /\ UNCHANGED <<analyzeVars, detectVars, storeVars, sourceVars>>

\* for future in as_completed(tag_futures) (lines 1101-1137): the next done
\* future; a match sets found_in_any_tag and starts the cancellation, a
\* cancelled future is recorded as skipped, and the loop ends with the last
\* future
GifCheckCollect(i) ==
    /\ gif_checks[i].pc = "collect"
    /\ \E f \in ProbesOf(i) :
          /\ FutureDone(f)
          /\ f[2] \notin gif_checks[i].collected
          /\ LET seen == gif_checks[i].collected \cup {f[2]}
                 hit == tag_futures[f].state = "finished"
                        /\ tag_futures[f].found
             IN  gif_checks' = [gif_checks EXCEPT ![i] =
                    IF hit
                      THEN [pc |-> "cancelling", found |-> TRUE, cur |-> 1,
                            collected |-> seen]
                    ELSE [pc |-> IF seen = 1..TagCount[i] THEN "exit"
                                 ELSE "collect",
                          found |-> FALSE, cur |-> 0, collected |-> seen]]
    /\ UNCHANGED <<tag_futures, search_hits, late_requests>>
    /\ UNCHANGED <<analyzeVars, detectVars, storeVars, sourceVars>>

\* for remaining_future in tag_futures: if not done: cancel() (lines
\* 1117-1119), one future per step; Future.cancel() cancels a queued future
\* and does nothing to a running one; then break
GifCheckCancel(i) ==
    /\ gif_checks[i].pc = "cancelling"
    /\ LET cur == gif_checks[i].cur
       IN  IF cur > MaxTagCount
             THEN /\ gif_checks' = [gif_checks EXCEPT ![i].pc = "exit"]
                  /\ UNCHANGED tag_futures
             ELSE /\ gif_checks' = [gif_checks EXCEPT ![i].cur = cur + 1]
                  /\ tag_futures' = [f \in Probes |->
                        IF /\ f[1] \in CancelTargets(i)
                           /\ f[2] = cur
                           /\ tag_futures[f].state = "pending"
                          THEN [tag_futures[f] EXCEPT !.state = "cancelled"]
                        ELSE tag_futures[f]]
    /\ UNCHANGED <<search_hits, late_requests>>
    /\ UNCHANGED <<analyzeVars, detectVars, storeVars, sourceVars>>

\* leaving "with ThreadPoolExecutor" (line 1098) waits for the probes that
\* are queued or running; then the call returns found_in_any_tag (lines
\* 1143-1147)
GifCheckReturn(i) ==
    /\ gif_checks[i].pc = "exit"
    /\ \A f \in ProbesOf(i) : FutureDone(f)
    /\ gif_checks' = [gif_checks EXCEPT ![i].pc = "returned"]
    /\ UNCHANGED <<tag_futures, search_hits, late_requests>>
    /\ UNCHANGED <<analyzeVars, detectVars, storeVars, sourceVars>>

\* Every call has submitted its probes (line 1099); the Content Source
\* answers each tag search with a hit on its first page or with none (0)
InitProbe ==
    /\ gif_checks = [i \in Items |->
          [pc |-> "collect", found |-> FALSE, cur |-> 0, collected |-> {}]]
    /\ tag_futures = [f \in Probes |->
          [state |-> "pending", page |-> 0, found |-> FALSE]]
    /\ search_hits \in [Probes -> {0, 1}]
    /\ late_requests = {}
    /\ sampled_gifs = <<>> /\ snapshot_store = NoneV
    /\ alternative_analysis = NoneV
    /\ AnalyzeIdle /\ DetectIdle /\ StoreIdle /\ OtherIdle

NextProbe ==
    \/ \E i \in Items, k \in 1..MaxTagCount : ProbeStart(i, k)
    \/ \E i \in Items, k \in 1..MaxTagCount : ProbeRequest(i, k)
    \/ \E i \in Items : GifCheckCollect(i)
    \/ \E i \in Items : GifCheckCancel(i)
    \/ \E i \in Items : GifCheckReturn(i)

SpecProbe == InitProbe /\ [][NextProbe]_vars

-----------------------------------------------------------------------------
(* check_gifs_one_by_one_with_tags, as called by analyze_channel_status *)

\* max_gifs_to_check=10 (line 4184) and tags[:5] (line 3675)
MAX_GIFS_TO_CHECK == 10
TAGS_PER_GIF == 5

Min(a, b) == IF a < b THEN a ELSE b
Count(seq, Test(_)) == Cardinality({k \in DOMAIN seq : Test(seq[k])})
Repeat(x, n) == [k \in 1..n |-> x]

\* What the search for a tag does: 200 with a result whose user is the
\* channel among the first 50, 200 without one, a non-200 answer, a request
\* that raises; "short" is a tag of fewer than 2 characters, never searched
\* (line 3676)
TagOutcomes == {"hit", "miss", "non200", "raises", "short"}
TagLists ==
    {<<>>} \cup {<<a>> : a \in TagOutcomes}
    \cup {<<a, b>> : a, b \in TagOutcomes}
    \cup {Repeat("miss", TAGS_PER_GIF) \o <<"hit">>}

\* A gif of all_gifs_list: without an id, or with a detail request that
\* raises, answers non-200, or answers 200 with the gif's tags
GifKinds ==
    {[detail |-> d, tags |-> <<>>] : d \in {"noid", "raises", "non200"}}
    \cup {[detail |-> "ok", tags |-> t] : t \in TagLists}
MissGif == [detail |-> "ok", tags |-> <<"miss">>]
HitGif == [detail |-> "ok", tags |-> <<"hit">>]
GifLists ==
    {<<g>> : g \in GifKinds} \cup {<<g, h>> : g, h \in GifKinds}
    \cup {Repeat(MissGif, MAX_GIFS_TO_CHECK) \o <<HitGif>>,
          Repeat(MissGif, MAX_GIFS_TO_CHECK - 1) \o <<HitGif>>}

\* A gif counted as working although fewer than five of its tags found the
\* channel would need five
GifWorkingFivePlus(tags_found_count) == tags_found_count >= TAGS_PER_GIF

\* is_gif_working = tags_found_count > 0 (line 3726)
is_gif_working(tags_found_count) == tags_found_count > 0

IsHit(t) == t = "hit"
IsTested(t) == t # "short"
HasDetails(g) == g.detail \in {"ok", "non200"}
TestedTags(g) == SubSeq(g.tags, 1, Min(TAGS_PER_GIF, Len(g.tags)))
GifIsWorking(g) == HasDetails(g) /\ is_gif_working(Count(TestedTags(g), IsHit))

\* total_tags_tested (found = FALSE) or total_tags_found (found = TRUE) over
\* the first k gifs
RECURSIVE SumTags(_, _, _)
SumTags(gifs, k, found) ==
    IF k = 0 THEN 0
    ELSE SumTags(gifs, k - 1, found)
         + (IF ~HasDetails(gifs[k]) THEN 0
            ELSE IF found THEN Count(TestedTags(gifs[k]), IsHit)
            ELSE Count(TestedTags(gifs[k]), IsTested))

\* check_gifs_one_by_one_with_tags (lines 3562-3768): None without an API
\* key, else the counts over the first 10 gifs and is_working
check_gifs_one_by_one_with_tags(all_gifs_list, api_key) ==
    IF ~api_key THEN NoneV
    ELSE LET gifs_to_check ==
                 SubSeq(all_gifs_list, 1,
                        Min(MAX_GIFS_TO_CHECK, Len(all_gifs_list)))
             gifs_with_5_plus_tags == Count(gifs_to_check, GifIsWorking)
         IN  Some([gifs_checked |-> Count(gifs_to_check, HasDetails),
                   gifs_with_5_plus_tags |-> gifs_with_5_plus_tags,
                   total_tags_tested |->
                       SumTags(gifs_to_check, Len(gifs_to_check), FALSE),
                   total_tags_found |->
                       SumTags(gifs_to_check, Len(gifs_to_check), TRUE),
                   is_working |-> gifs_with_5_plus_tags > 0])

\* Lines 4174-4212: with a channel id and gifs, the result of
\* check_gifs_one_by_one_with_tags becomes visible_in_search and
\* search_visibility; None leaves both as they were
GifsCheck ==
    /\ pc = "gifs_check"
    /\ LET gifs_check_result ==
               check_gifs_one_by_one_with_tags(sampled_gifs.gifs,
                                               sampled_gifs.api_key)
       IN  IF IsNone(gifs_check_result) THEN
               UNCHANGED <<visible_in_search, search_visibility>>
           ELSE
               /\ visible_in_search' = Val(gifs_check_result).is_working
               /\ search_visibility' = Some(
                    [visible_in_search |-> Val(gifs_check_result).is_working,
                     gifs_with_5_plus_tags |->
                         Val(gifs_check_result).gifs_with_5_plus_tags,
                     total_tags_found |->
                         Val(gifs_check_result).total_tags_found,
                     total_tags_tested |->
                         Val(gifs_check_result).total_tags_tested])
    /\ pc' = "trend"
    /\ UNCHANGED <<args, n_gifs, view_trend_analysis, analysis, cache>>
    /\ UNCHANGED <<detectVars, storeVars, probeVars, sourceVars>>

InitGifsCheck ==
    /\ pc = "gifs_check"
    /\ args = NoneV
    /\ n_gifs = 0
    /\ search_visibility = NoneV
    /\ visible_in_search = FALSE
    /\ view_trend_analysis = NoneV
    /\ analysis = InitialAnalysis
    /\ cache = NoneV
    /\ sampled_gifs \in [gifs : GifLists, api_key : BOOLEAN]
    /\ gif_checks = <<>> /\ tag_futures = <<>>
    /\ search_hits = <<>> /\ late_requests = {}
    /\ snapshot_store = NoneV /\ alternative_analysis = NoneV
    /\ DetectIdle /\ StoreIdle /\ OtherIdle

NextGifsCheck == GifsCheck

SpecGifsCheck == InitGifsCheck /\ [][NextGifsCheck]_vars

InitAnalyze ==
    /\ pc = "start"
    /\ args \in ArgSets
    /\ n_gifs = args.gifs
    /\ search_visibility = NoneV
    /\ visible_in_search = FALSE
    /\ view_trend_analysis = NoneV
    /\ analysis = InitialAnalysis
    /\ cache \in CacheEntries
    /\ cache_before = cache
    /\ DetectIdle /\ StoreIdle /\ ProbeIdle /\ ShadowIdle /\ ScanIdle
    /\ CacheFileIdle /\ TrendIdle

NextAnalyze ==
    \/ Existence
    \/ ProbeSearch
    \/ ViewTrendsDone
    \/ ViewTrendsNone
    \/ Decide
    \/ DecideRaises

SpecAnalyze == InitAnalyze /\ [][NextAnalyze]_vars

-----------------------------------------------------------------------------
(* check_shadow_banned_channel: the sampled gifs checked in a pool of 8 *)

\* Bound: number of gifs handed to check_shadow_banned_channel
MaxSample == 2

\* What the searches for a query term (a tag, or a word of the title) do:
\* a result of the channel is found; none is found; the request times out
\* or answers non-200, and check_channel_gifs_in_search_results returns False
\* (lines 881-891)
SearchOutcomes == {"hit", "miss", "fails"}

\* A sampled gif: the outcomes of the searches for its tags (none when the
\* gif has no tags or they could not be fetched), and its title: empty,
\* only words of up to 3 characters, not a string (gif_title.split raises),
\* or one usable word with the outcome of its search
SampleGifs ==
    {[tags |-> t, title |-> "none"] :
        t \in {<<a>> : a \in SearchOutcomes}
              \cup {<<a, b>> : a, b \in SearchOutcomes}}
    \cup {[tags |-> <<>>, title |-> w] :
            w \in {"none", "short", "bad"} \cup SearchOutcomes}

\* _check_single_gif_visibility (lines 1007-1147): the dict it returns, or
\* the exception that leaves it
check_single_gif_visibility(gif) ==
    IF gif.tags = <<>> /\ gif.title = "bad" THEN
        [raised |-> TRUE, found |-> FALSE, reason |-> "AttributeError"]
    ELSE
        LET tags == IF gif.tags # <<>> THEN gif.tags
                    ELSE IF gif.title \in SearchOutcomes THEN <<gif.title>>
                    ELSE <<>>
        IN  IF tags = <<>> THEN
                [raised |-> FALSE, found |-> FALSE, reason |-> "L1048"]
            ELSE
                [raised |-> FALSE,
                 found |-> \E k \in DOMAIN tags : tags[k] = "hit",
                 reason |-> "None"]

\* The result dict of lines 1176-1182
InitialShadowResult ==
    [is_shadow_banned |-> FALSE, gifs_checked |-> 0,
     gifs_found_in_search |-> 0, gifs_not_found |-> 0, details |-> {},
     reason |-> "None"]

\* Lines 1188-1221: without a list the channel is fetched, and a channel
\* that is not found returns at once; the first 15 gifs are the sample; an
\* empty sample returns at once; else every gif is submitted to the pool
ShadowStart ==
    /\ shadow_check.pc = "start"
    /\ LET given == shadow_check.channel_gifs
           channel_gifs == IF IsNone(given) THEN <<>> ELSE Val(given)
           sample_gifs == SubSeq(channel_gifs, 1,
                                 Min(SAMPLE_GIFS, Len(channel_gifs)))
       IN  IF IsNone(given) THEN
               shadow_check' = [shadow_check EXCEPT
                   !.pc = "returned",
                   !.result = [@ EXCEPT !.is_shadow_banned = TRUE,
                                        !.reason = "L1193"]]
           ELSE IF Len(sample_gifs) = 0 THEN
               shadow_check' = [shadow_check EXCEPT
                   !.pc = "returned",
                   !.result = [@ EXCEPT !.is_shadow_banned = TRUE,
                                        !.reason = "L1203"]]
           ELSE
               shadow_check' = [shadow_check EXCEPT
                   !.pc = "collect",
                   !.sample_gifs = sample_gifs,
                   !.result = [@ EXCEPT !.gifs_checked = Len(sample_gifs)]]
    /\ UNCHANGED shadowFrame

\* A loop over the futures without its except clause: the exception of a
\* gif's check leaves check_shadow_banned_channel
ShadowCollectUncaught(i) ==
    /\ shadow_check.pc = "collect"
    /\ i \in DOMAIN shadow_check.sample_gifs
    /\ i \notin shadow_check.result.details
    /\ LET gif_result == check_single_gif_visibility(shadow_check.sample_gifs[i])
       IN  IF gif_result.raised THEN
               shadow_check' = [shadow_check EXCEPT !.pc = "raised"]
           ELSE
               shadow_check' = [shadow_check EXCEPT
                   !.result = [@ EXCEPT
                       !.details = @ \cup {i},
                       !.gifs_found_in_search =
                           IF gif_result.found THEN @ + 1 ELSE @,
                       !.gifs_not_found =
                           IF gif_result.found THEN @ ELSE @ + 1]]
    /\ UNCHANGED shadowFrame

\* for future in as_completed(gif_futures) (lines 1223-1246): the futures
\* are taken in the order they complete; a found gif adds to
\* gifs_found_in_search, another to gifs_not_found, and so does a gif whose
\* check raised (except Exception, line 1234)
ShadowCollect(i) ==
    /\ shadow_check.pc = "collect"
    /\ i \in DOMAIN shadow_check.sample_gifs
    /\ i \notin shadow_check.result.details
    /\ LET gif_result == check_single_gif_visibility(shadow_check.sample_gifs[i])
       IN  shadow_check' = [shadow_check EXCEPT
               !.result = [@ EXCEPT
                   !.details = @ \cup {i},
                   !.gifs_found_in_search =
                       IF ~gif_result.raised /\ gif_result.found
                       THEN @ + 1 ELSE @,
                   !.gifs_not_found =
                       IF ~gif_result.raised /\ gif_result.found
                       THEN @ ELSE @ + 1]]
    /\ UNCHANGED shadowFrame

\* Lines 1248-1264: after the last future, the visibility rate decides
ShadowFinish ==
    /\ shadow_check.pc = "collect"
    /\ shadow_check.result.details = DOMAIN shadow_check.sample_gifs
    /\ LET verdict == check_shadow_banned_channel(
                          shadow_check.result.gifs_checked,
                          shadow_check.result.gifs_found_in_search)
       IN  shadow_check' = [shadow_check EXCEPT
               !.pc = "returned",
               !.result = [@ EXCEPT
                   !.is_shadow_banned = verdict.is_shadow_banned,
                   !.reason = verdict.reason]]
    /\ UNCHANGED shadowFrame

\* channel_gifs is None (and the channel is not found), or a list of gifs
InitShadowCheck ==
    /\ shadow_check \in
          [pc : {"start"},
           channel_gifs : {NoneV} \cup
               {Some(l) : l \in UNION {[1..n -> SampleGifs] :
                                          n \in 0..MaxSample}},
           sample_gifs : {<<>>},
           result : {InitialShadowResult}]
    /\ cache_before = NoneV /\ ScanIdle /\ CacheFileIdle /\ TrendIdle
    /\ AnalyzeIdle /\ DetectIdle /\ StoreIdle /\ ProbeIdle

NextShadowCheck ==
    \/ ShadowStart
    \/ \E i \in 1..MaxSample : ShadowCollect(i)
    \/ ShadowFinish

\* The pool runs every submitted check to its end
SpecShadowCheck ==
    InitShadowCheck /\ [][NextShadowCheck]_vars /\ WF_vars(NextShadowCheck)

-----------------------------------------------------------------------------
(* check_channel_gifs_in_search_results: the paginated search for one query
   term *)

\* limit = 100 and max_offset = 2400 (lines 788 and 790)
limit == 100
max_offset == 2400

\* What the Content Source does with the request for the page at `offset`:
\* the request raises (timeout, connection error, a body that is not JSON),
\* answers non-200, or answers 200 with n results (none, a short page, a full
\* page), a pagination.total_count (0 when not reported, the count reached by
\* this page, or a larger one) and possibly a result owned by the channel
SearchResponses(offset) ==
    {[status |-> st, n |-> 0, total_count |-> 0, match |-> FALSE] :
        st \in {"raises", "non200"}}
    \cup UNION {{[status |-> "200", n |-> n, total_count |-> t, match |-> m] :
                    t \in {0, offset + n, 5000},
                    m \in IF n > 0 THEN BOOLEAN ELSE {FALSE}} :
                 n \in {0, 40, limit}}

\* The page ends the scan without a match: lines 816-822 (an empty page at
\* the last offset) and lines 863-867 (a short page reaching total_count)
PageBreaks(offset, r) ==
    \/ r.n = 0 /\ offset >= max_offset
    \/ /\ r.n > 0 /\ r.n < limit
       /\ r.total_count > 0 /\ offset + r.n >= r.total_count

\* A scan that goes on to the next page after a non-200 answer
ScanPageIgnoresStatus ==
    /\ search_scan.pc = "loop"
    /\ search_scan.offset <= max_offset
    /\ \E r \in SearchResponses(search_scan.offset) :
          LET offset == search_scan.offset
              requested == [search_scan EXCEPT
                               !.requests = Append(@, offset), !.last = Some(r)]
          IN  IF r.status = "raises" THEN
                  search_scan' = [requested EXCEPT !.pc = "returned"]
              ELSE IF r.status = "200" /\ r.match THEN
                  search_scan' = [requested EXCEPT !.pc = "returned",
                                                   !.found = TRUE]
              ELSE IF r.status = "200" /\ PageBreaks(offset, r) THEN
                  search_scan' = [requested EXCEPT !.pc = "returned"]
              ELSE
                  search_scan' = [requested EXCEPT !.offset = offset + limit]
    /\ UNCHANGED scanFrame

\* Lines 795-796: without a channel username the scan returns False at once
ScanStart ==
    /\ search_scan.pc = "start"
    /\ search_scan' = [search_scan EXCEPT
           !.pc = IF search_scan.channel_username THEN "loop" ELSE "returned"]
    /\ UNCHANGED scanFrame

\* One turn of `while offset <= max_offset` (lines 798-883): the request for
\* the page at offset; an exception returns False (line 889), a non-200
\* answer breaks, a result owned by the channel returns True, a page that
\* ends the scan breaks, and every other page moves offset by limit
ScanPage ==
    /\ search_scan.pc = "loop"
    /\ search_scan.offset <= max_offset
    /\ \E r \in SearchResponses(search_scan.offset) :
          LET offset == search_scan.offset
              requested == [search_scan EXCEPT
                               !.requests = Append(@, offset), !.last = Some(r)]
          IN  IF r.status \in {"raises", "non200"} THEN
                  search_scan' = [requested EXCEPT !.pc = "returned"]
              ELSE IF r.match THEN
                  search_scan' = [requested EXCEPT !.pc = "returned",
                                                   !.found = TRUE]
              ELSE IF PageBreaks(offset, r) THEN
                  search_scan' = [requested EXCEPT !.pc = "returned"]
              ELSE
                  search_scan' = [requested EXCEPT !.offset = offset + limit]
    /\ UNCHANGED scanFrame

\* The loop ends with offset above max_offset: return False (line 887)
ScanExit ==
    /\ search_scan.pc = "loop"
    /\ search_scan.offset > max_offset
    /\ search_scan' = [search_scan EXCEPT !.pc = "returned"]
    /\ UNCHANGED scanFrame

InitSearchScan ==
    /\ search_scan \in
          [pc : {"start"}, channel_username : BOOLEAN, offset : {0},
           requests : {<<>>}, last : {NoneV}, found : {FALSE}]
    /\ cache_before = NoneV /\ ShadowIdle /\ CacheFileIdle /\ TrendIdle
    /\ AnalyzeIdle /\ DetectIdle /\ StoreIdle /\ ProbeIdle

NextSearchScan ==
    \/ ScanStart
    \/ ScanPage
    \/ ScanExit

\* The calling thread runs the loop on
SpecSearchScan ==
    InitSearchScan /\ [][NextSearchScan]_vars /\ WF_vars(NextSearchScan)

-----------------------------------------------------------------------------
(* cache_views and get_cached_views on channel_views_cache.json, with
   cache_views run by several request threads or processes *)

\* The channels of the cache file, and the threads calling cache_views, each
\* for its own channel
Channels == {"chan_a", "chan_b", "chan_c"}
Cachers == {"t1", "t2"}
CacherChannel == [t1 |-> "chan_a", t2 |-> "chan_b"]

\* A dict without entries, cache = {}
EmptyDict == [c \in Channels |-> NoneV]

\* The file: it exists or not, its text parses as JSON or not (a file just
\* opened for writing is empty), and the dict it holds
CacheFile(exists, valid, entries) ==
    [exists |-> exists, valid |-> valid, entries |-> entries]

\* get_cached_views (lines 2681-2691): None without a file, with a file that
\* does not parse, and for a channel without an entry
get_cached_views(channel_id) ==
    IF ~cache_file.exists \/ ~cache_file.valid THEN NoneV
    ELSE cache_file.entries[channel_id]

\* cache_views, lines 2695-2701: cache = {} is replaced by the file's dict
\* when the file exists and parses
CacheLoad(t) ==
    /\ cachers[t].pc = "called"
    /\ cachers' = [cachers EXCEPT
          ![t].pc = "loaded",
          ![t].cache = IF cache_file.exists /\ cache_file.valid
                       THEN cache_file.entries ELSE EmptyDict]
    /\ UNCHANGED cache_file
    /\ UNCHANGED cacheFrame

\* lines 2703-2708: cache[channel_id] = the entry built from views_data
CacheAssign(t) ==
    /\ cachers[t].pc = "loaded"
    /\ cachers' = [cachers EXCEPT
          ![t].pc = "assigned",
          ![t].cache = [@ EXCEPT ![cachers[t].channel_id] =
                                     Some(cachers[t].views_data)]]
    /\ UNCHANGED cache_file
    /\ UNCHANGED cacheFrame

\* line 2711: open(CACHE_FILE, 'w') creates the file or truncates it
CacheOpen(t) ==
    /\ cachers[t].pc = "assigned"
    /\ cachers' = [cachers EXCEPT ![t].pc = "opened"]
    /\ cache_file' = CacheFile(TRUE, FALSE, EmptyDict)
    /\ UNCHANGED cacheFrame

\* line 2712 and the end of the with block: json.dump(cache, f), close
CacheDump(t) ==
    /\ cachers[t].pc = "opened"
    /\ cachers' = [cachers EXCEPT ![t].pc = "done"]
    /\ cache_file' = CacheFile(TRUE, TRUE, cachers[t].cache)
    /\ UNCHANGED cacheFrame

\* Every thread has been handed a call cache_views(channel_id, views_data);
\* the file is missing, or holds the entry of a third channel
InitCacheWriters ==
    /\ cache_file \in {CacheFile(FALSE, FALSE, EmptyDict),
                       CacheFile(TRUE, TRUE, EmptyDict),
                       CacheFile(TRUE, TRUE,
                           [EmptyDict EXCEPT !["chan_c"] = Some(Views(5000, 5))])}
    /\ cachers \in [Cachers -> [pc : {"called"}, channel_id : Channels,
                                views_data : {Views(5000, 5), Views(7000, 5)},
                                cache : {EmptyDict}]]
    /\ \A t \in Cachers : cachers[t].channel_id = CacherChannel[t]
    /\ cache_before = NoneV /\ ShadowIdle /\ ScanIdle /\ TrendIdle
    /\ AnalyzeIdle /\ DetectIdle /\ StoreIdle /\ ProbeIdle

NextCacheWriters ==
    \/ \E t \in Cachers : CacheLoad(t)
    \/ \E t \in Cachers : CacheAssign(t)
    \/ \E t \in Cachers : CacheOpen(t)
    \/ \E t \in Cachers : CacheDump(t)

SpecCacheWriters == InitCacheWriters /\ [][NextCacheWriters]_vars

-----------------------------------------------------------------------------
(* analyze_view_trends on the rows of view_history: the totals are computed
   from the rows of each gif, as the queries compute them *)

\* Time in hours; datetime.now() of the call, 12:00 of day 2
now == 60

\* .date() of a time
DateOf(t) == t \div 24

\* The gifs of the channel in table gifs, which are the gif_ids the caller
\* passes, and the view counts stored
ChannelGifs == <<"g1", "g2">>
StoredCounts == {0, 100, 300}

\* When a row can have been recorded: 06:00 of day 0 (54 hours ago), 06:00 or
\* 18:00 of day 1 (30 or 18 hours ago), 10:00 of day 2 (2 hours ago)
RecordTimes == {6, 30, 42, 58}

TimedRow(g, v, t) ==
    [gif_id |-> g, view_count |-> v, recorded_date |-> DateOf(t),
     recorded_at |-> t]

\* The rows one gif can have: UNIQUE(gif_id, recorded_date) (line 90) leaves
\* at most one row per date
GifRowSets(g) ==
    {S \in SUBSET {TimedRow(g, v, t) : v \in StoredCounts, t \in RecordTimes} :
        \A r1, r2 \in S : r1.recorded_date = r2.recorded_date => r1 = r2}

\* SELECT view_count ... WHERE gif_id = ? AND recorded_at <= ? ORDER BY
\* recorded_at DESC LIMIT 1 (lines 2547-2553), as a set of at most one row
LatestAtOrBefore(rows, g, t) ==
    {r \in rows : /\ r.gif_id = g /\ r.recorded_at <= t
                  /\ \A q \in rows : (q.gif_id = g /\ q.recorded_at <= t)
                                        => q.recorded_at <= r.recorded_at}

RECURSIVE SumViewCounts(_)
SumViewCounts(S) ==
    IF S = {} THEN 0
    ELSE LET r == CHOOSE x \in S : TRUE
         IN  r.view_count + SumViewCounts(S \ {r})

\* get_channel_total_views_24_hours_ago (lines 2520-2563): the sum, over the
\* gifs of the channel, of the latest row at least 24 hours old of each gif
\* that has one
get_channel_total_views_24_hours_ago(rows) ==
    SumViewCounts(UNION {LatestAtOrBefore(rows, ChannelGifs[k], now - 24) :
                            k \in DOMAIN ChannelGifs})

\* get_channel_total_views_48_hours_ago: the same, 48 hours old
get_channel_total_views_48_hours_ago(rows) ==
    SumViewCounts(UNION {LatestAtOrBefore(rows, ChannelGifs[k], now - 48) :
                            k \in DOMAIN ChannelGifs})

\* get_channel_total_views_for_date (lines 2422-2450): the sum of the rows of
\* the channel's gifs recorded on target_date
get_channel_total_views_for_date(rows, target_date) ==
    SumViewCounts({r \in rows : r.recorded_date = target_date})

\* get_gif_view_history (lines 2366-2383): the rows of the gif recorded on or
\* after (now - days).date(), by ascending recorded_date
RECURSIVE ByDate(_)
ByDate(S) ==
    IF S = {} THEN <<>>
    ELSE LET r == CHOOSE x \in S :
                    \A y \in S : x.recorded_date <= y.recorded_date
         IN  <<r>> \o ByDate(S \ {r})

get_gif_view_history(rows, g, days) ==
    ByDate({r \in rows : /\ r.gif_id = g
                         /\ r.recorded_date >= DateOf(now - 24 * days)})

\* Lines 2854-2863: the entries before the latest, from the most recent to
\* the oldest; the first one dated yesterday, or dated from yesterday on and
\* before the latest, gives yesterday_views
RECURSIVE YesterdayEntry(_, _, _, _)
YesterdayEntry(history, k, yesterday, latest_date) ==
    IF k = 0 THEN [views |-> NoneV, dated_yesterday |-> FALSE]
    ELSE IF history[k].recorded_date = yesterday
         THEN [views |-> Some(history[k].view_count), dated_yesterday |-> TRUE]
    ELSE IF history[k].recorded_date < latest_date
            /\ history[k].recorded_date >= yesterday
         THEN [views |-> Some(history[k].view_count), dated_yesterday |-> FALSE]
    ELSE YesterdayEntry(history, k - 1, yesterday, latest_date)

\* Lines 2786-2835: the early return for no gif ids, then the total 24 hours
\* old (and, when that is positive, the one 48 hours old), else the total
\* dated yesterday
TrendStart ==
    /\ trend_call.pc = "called"
    /\ LET c == trend_call
           use24 == ~IsNone(c.channel_id)
           y24 == IF use24 THEN get_channel_total_views_24_hours_ago(timed_rows)
                  ELSE 0
           h48 == IF use24 /\ y24 > 0
                  THEN get_channel_total_views_48_hours_ago(timed_rows) ELSE 0
           ydate == get_channel_total_views_for_date(timed_rows,
                                                     DateOf(now) - 1)
       IN  IF Len(c.gif_ids) = 0 THEN
               trend_call' = [c EXCEPT
                   !.pc = "returned",
                   !.result = Some([total_gifs |-> 0, gifs_with_views |-> 0,
                       total_views_today |-> 0, total_views_yesterday |-> 0,
                       total_views_48h_ago |-> 0, views_difference |-> 0,
                       views_difference_48h |-> 0, trend |-> "unknown",
                       yesterday_data_available |-> FALSE,
                       comparison_method |-> "none"])]
           ELSE IF y24 > 0 THEN
               trend_call' = [c EXCEPT
                   !.pc = "loop", !.total_views_yesterday = y24,
                   !.total_views_48h_ago = h48,
                   !.yesterday_data_available = TRUE,
                   !.comparison_method = "24_hour"]
           ELSE IF ~IsNone(c.channel_id) THEN
               trend_call' = [c EXCEPT
                   !.pc = "loop", !.total_views_yesterday = ydate,
                   !.yesterday_data_available = ydate > 0]
           ELSE
               trend_call' = [c EXCEPT !.pc = "loop"]
    /\ UNCHANGED timed_rows
    /\ UNCHANGED trendFrame

\* Lines 2838-2870, one iteration of `for gif_id in gif_ids`
TrendGif ==
    /\ trend_call.pc = "loop"
    /\ trend_call.i <= Len(trend_call.gif_ids)
    /\ LET c == trend_call
           history == get_gif_view_history(timed_rows, c.gif_ids[c.i], c.days)
           latest == history[Len(history)]
           y == YesterdayEntry(history, Len(history) - 1, DateOf(now) - 1,
                               latest.recorded_date)
       IN  IF Len(history) = 0 THEN
               trend_call' = [c EXCEPT !.i = @ + 1]
           ELSE IF c.yesterday_data_available THEN
               trend_call' = [c EXCEPT
                   !.i = @ + 1,
                   !.total_views_today = @ + latest.view_count,
                   !.gifs_with_views = @ + 1]
           ELSE
               trend_call' = [c EXCEPT
                   !.i = @ + 1,
                   !.total_views_today = @ + latest.view_count,
                   !.gifs_with_views = @ + 1,
                   !.yesterday_data_available = y.dated_yesterday,
                   !.total_views_yesterday =
                       IF IsNone(y.views) THEN @ ELSE @ + Val(y.views)]
    /\ UNCHANGED timed_rows
    /\ UNCHANGED trendFrame

\* Lines 2880-2915: the differences, the trend and the returned dict
TrendReturn ==
    /\ trend_call.pc = "loop"
    /\ trend_call.i > Len(trend_call.gif_ids)
    /\ LET c == trend_call
           today == c.total_views_today
           yesterday == c.total_views_yesterday
           h48 == c.total_views_48h_ago
           trend == IF ~c.yesterday_data_available THEN "no_history"
                    ELSE IF today > yesterday THEN "increasing"
                    ELSE IF h48 > 0 /\ today > h48 THEN "increasing_48h"
                    ELSE IF today < yesterday THEN "decreasing"
                    ELSE IF c.gifs_with_views = 0 THEN "no_views"
                    ELSE "stagnant"
       IN  trend_call' = [c EXCEPT
               !.pc = "returned",
               !.result = Some([total_gifs |-> Len(c.gif_ids),
                   gifs_with_views |-> c.gifs_with_views,
                   total_views_today |-> today,
                   total_views_yesterday |-> yesterday,
                   total_views_48h_ago |-> h48,
                   views_difference |-> today - yesterday,
                   views_difference_48h |-> IF h48 > 0 THEN today - h48 ELSE 0,
                   trend |-> trend,
                   yesterday_data_available |-> c.yesterday_data_available,
                   comparison_method |-> c.comparison_method])]
    /\ UNCHANGED timed_rows
    /\ UNCHANGED trendFrame

\* The table holds any rows of the channel's gifs; the call is
\* analyze_view_trends(gif_ids, days=2, channel_id=channel_id) of line 4333,
\* or one without a channel id, with the locals of lines 2802-2809
InitTrendRows ==
    /\ \E s1 \in GifRowSets(ChannelGifs[1]), s2 \in GifRowSets(ChannelGifs[2]) :
          timed_rows = s1 \cup s2
    /\ trend_call \in
          [pc : {"called"},
           gif_ids : {<<>>, ChannelGifs},
           days : {2}, channel_id : {NoneV, Some("chan")},
           i : {1}, total_views_today : {0}, total_views_yesterday : {0},
           total_views_48h_ago : {0}, gifs_with_views : {0},
           yesterday_data_available : {FALSE},
           comparison_method : {"date_based"}, result : {NoneV}]
    /\ cache_before = NoneV /\ ShadowIdle /\ ScanIdle /\ CacheFileIdle
    /\ AnalyzeIdle /\ DetectIdle /\ StoreIdle /\ ProbeIdle

NextTrendRows ==
    \/ TrendStart
    \/ TrendGif
    \/ TrendReturn

SpecTrendRows == InitTrendRows /\ [][NextTrendRows]_vars

-----------------------------------------------------------------------------
(* Properties *)

\* analysis['analysis_reasons'] holds the reason appended at that line
HasReason(tag) ==
    \E i \in DOMAIN analysis.analysis_reasons :
        analysis.analysis_reasons[i] = tag

\* analyze_channel_status returned, after a probe that ran and reported the
\* channel visible / not visible
VisibleReturned ==
    pc = "returned" /\ ~IsNone(search_visibility) /\ visible_in_search

NotVisibleReturned ==
    pc = "returned" /\ ~IsNone(search_visibility) /\ ~visible_in_search

\* A baseline exists
HasBaseline ==
    ~IsNone(view_trend_analysis)
    /\ Val(view_trend_analysis).yesterday_data_available

IsShadowBanned ==
    /\ analysis.status = "shadow_banned"
    /\ analysis.shadow_banned /\ ~analysis.working /\ ~analysis.banned

\* C1: when the probe ran and reported the channel visible, the returned
\* status is 'working' with working = true, shadow_banned = false and
\* banned = false, whatever the trend is
C1_VisibleIsWorking ==
    VisibleReturned =>
        /\ analysis.status = "working"
        /\ analysis.working /\ ~analysis.shadow_banned /\ ~analysis.banned

\* a visible channel whose views are stagnant against a baseline, which the
\* trend rules had called shadow banned
C1_Witness ==
    /\ VisibleReturned
    /\ HasBaseline
    /\ Val(view_trend_analysis).views_difference = 0
    /\ HasReason("L4696")
    /\ analysis.status = "working"

\* The call is about a channel with zero items and no views on its page
\* (page metrics 0 or not available)
ZeroItemsZeroViews ==
    /\ pc = "returned"
    /\ args.gifs = 0
    /\ ~Positive(args.uploads_from_page)
    /\ ~Positive(args.views_from_page)

\* C2 as stated: every channel with zero items and zero aggregate views is
\* returned as 'banned', whatever the other inputs are
C2_ZeroIsBanned ==
    ZeroItemsZeroViews => analysis.status = "banned"

\* C2, amended: a channel with zero items and zero aggregate views is
\* returned as 'banned' when the page shows 0 uploads and 0 views, or when
\* there is no user data and neither page metric is available; otherwise
\* it is returned as 'unknown'
C2_ZeroIsBannedOrUnknown ==
    ZeroItemsZeroViews =>
        IF \/ IsZero(args.uploads_from_page) /\ IsZero(args.views_from_page)
           \/ /\ ~args.user_data
              /\ IsNone(args.uploads_from_page)
              /\ IsNone(args.views_from_page)
        THEN analysis.status = "banned" /\ analysis.banned
        ELSE analysis.status = "unknown" /\ ~analysis.banned

\* user data present, no item, no page metric: 'unknown'
C2_Witness ==
    /\ ZeroItemsZeroViews
    /\ args.user_data
    /\ IsNone(args.uploads_from_page) /\ IsNone(args.views_from_page)
    /\ analysis.status = "unknown"
    /\ HasReason("L4158")

\* The trend is significant for a large channel: baseline >= 100,000 with
\* delta >= 1,000 or delta / baseline >= 0.1%
SignificantTrend ==
    /\ HasBaseline
    /\ Val(view_trend_analysis).total_views_yesterday >= LARGE_CHANNEL_VIEWS
    /\ \/ Val(view_trend_analysis).views_difference >= WORKING_THRESHOLD
       \/ PctAtLeastTenth(Val(view_trend_analysis).views_difference,
                          Val(view_trend_analysis).total_views_yesterday)

DecreasedViews ==
    HasBaseline /\ Val(view_trend_analysis).views_difference < 0

NoBaseline ==
    ~IsNone(view_trend_analysis)
    /\ ~Val(view_trend_analysis).yesterday_data_available

\* C5 as stated: probe ran and reported not visible, no baseline: the
\* returned status is 'unknown'
C5_NoBaselineIsUnknown ==
    (NotVisibleReturned /\ NoBaseline) => analysis.status = "unknown"

\* C5, amended: probe ran and reported not visible, no baseline: the
\* returned status is 'shadow_banned'; 'unknown' is only returned when
\* the probe gave no answer
C5_NoBaselineNotVisibleIsShadowBanned ==
    /\ (NotVisibleReturned /\ NoBaseline) => IsShadowBanned
    /\ (pc = "returned" /\ NoBaseline /\ HasReason("L4478")
        /\ analysis.status = "unknown") => IsNone(search_visibility)

\* the trend rules had said 'unknown' (line 4478) before the final decision
C5_Witness ==
    /\ NotVisibleReturned
    /\ NoBaseline
    /\ HasReason("L4478")
    /\ analysis.status = "shadow_banned"

\* C6: probe ran and reported not visible, view total unchanged against an
\* existing baseline: the returned status is 'shadow_banned', for channels
\* of every size
C6_StagnantIsShadowBanned ==
    (/\ NotVisibleReturned
     /\ HasBaseline
     /\ Val(view_trend_analysis).views_difference = 0) => IsShadowBanned

\* a channel with 10,000,000 views, which the trend rules had called
\* 'working' (line 4667)
C6_Witness ==
    /\ NotVisibleReturned
    /\ HasBaseline
    /\ Val(view_trend_analysis).views_difference = 0
    /\ Val(view_trend_analysis).total_views_today
           >= VERY_LARGE_CHANNEL_THRESHOLD
    /\ HasReason("L4667")
    /\ analysis.status = "shadow_banned"

\* Every Content Source call of the evaluation failed
AllCallsFailed ==
    /\ Len(denv.calls) > 0
    /\ \A i \in DOMAIN denv.calls : denv.calls[i] \in SourceFailures

\* C7 as stated: if every Content Source call of an evaluation fails,
\* detect_channel_status returns 'unknown' with a reason
C7_AllFailedIsUnknown ==
    (dpc = "returned" /\ AllCallsFailed) =>
        /\ Val(dres).status = "unknown"
        /\ ~IsNone(Val(dres).reason)

\* C8 as stated: analyze_channel_status never raises
C8_NeverRaises ==
    pc # "raised"

CallsFor(g, d) ==
    {i \in DOMAIN store_calls :
        store_calls[i].gif_id = g /\ store_calls[i].recorded_date = d}

Latest(idx) == CHOOSE i \in idx : \A j \in idx : j <= i

\* C10: after any sequence of store_view_count calls, view_history holds at
\* most one row per (gif_id, recorded_date): none for a key never stored,
\* and for a stored key the row written by the most recent call for that key,
\* with its view count (so a call leaves the rows of the other keys alone)
C10_OneRowPerKey ==
    \A g \in GifIds, d \in Dates :
        LET idx == CallsFor(g, d)
            rows == Conflicting(view_history, g, d)
        IN  IF idx = {} THEN rows = {}
            ELSE /\ Cardinality(rows) = 1
                 /\ \A r \in rows :
                       /\ r.id = Latest(idx)
                       /\ r.view_count = store_calls[Latest(idx)].view_count

\* a key stored twice with different view counts, next to a row of another key
C10_Witness ==
    \E i, j, k \in DOMAIN store_calls :
        /\ i < j
        /\ store_calls[i].gif_id = store_calls[j].gif_id
        /\ store_calls[i].recorded_date = store_calls[j].recorded_date
        /\ store_calls[i].view_count # store_calls[j].view_count
        /\ k < i
        /\ store_calls[k].gif_id # store_calls[i].gif_id

\* The committed calls for (g, d) have left exactly one row, the one of the
\* last commit
KeyHoldsLastCommit(g, d) ==
    LET idx == CallsFor(g, d)
        rows == Conflicting(view_history, g, d)
    IN  IF idx = {} THEN rows = {}
        ELSE /\ Cardinality(rows) = 1
             /\ \A r \in rows :
                   r.view_count = store_calls[Latest(idx)].view_count

AllWritersDone == \A w \in Writers : writers[w].pc = "done"

\* C11: two threads running store_view_count at the same time, with no lock
\* of their own, both complete; at every moment each key has exactly one row
\* once a call for it has committed, holding the value of the last commit
C11_ConcurrentWritersSafe ==
    /\ [](\A g \in GifIds, d \in Dates : KeyHoldsLastCommit(g, d))
    /\ <>[]AllWritersDone

\* both threads wrote the same key with different values and have returned
C11_Witness ==
    /\ AllWritersDone
    /\ writers["w1"].gif_id = writers["w2"].gif_id
    /\ writers["w1"].recorded_date = writers["w2"].recorded_date
    /\ writers["w1"].view_count # writers["w2"].view_count
    /\ Len(store_calls) = 2

\* C12: once a tag probe of an item has reported a match and the sibling
\* futures have been cancelled, no probe of that item issues a search request
C12_NoRequestAfterCancel == late_requests = {}

\* The item's call has returned the result it gets when checked alone: found
\* exactly when one of its tag searches has a hit
ResultAsAlone(i) ==
    gif_checks[i].pc = "returned" =>
        gif_checks[i].found = (\E f \in ProbesOf(i) : search_hits[f] # 0)

\* C13: the cancellation in one item's call leaves the probes of the other
\* items alone: a probe is cancelled only after its own item had a match,
\* and every item returns the result it gets when checked alone
C13_CancellationStaysInItem ==
    \A i \in Items :
        /\ ResultAsAlone(i)
        /\ \A f \in ProbesOf(i) :
              tag_futures[f].state = "cancelled" => gif_checks[i].found

\* item 1 cancelled a queued probe after a match, and item 2, checked at the
\* same time, scanned every page of its tag search and returned not found
C13_Witness ==
    /\ gif_checks[1].found
    /\ \E f \in ProbesOf(1) : tag_futures[f].state = "cancelled"
    /\ gif_checks[2].pc = "returned"
    /\ ~gif_checks[2].found
    /\ tag_futures[<<2, 1>>].page = MaxPages

\* C14: detect_channel_status returns 'working' for an existing channel with
\* 10 sampled items of which exactly one is found in search
C14_OneHitIsWorking ==
    (/\ dpc = "returned"
     /\ denv.info.exists
     /\ denv.info.total_gifs = 10
     /\ Len(denv.calls) >= 2
     /\ denv.calls[2] = "ok"
     /\ denv.found = 1)
    => Val(dres).status = "working"

\* The channel listing was answered and yielded no item and no views
ListingEmpty ==
    /\ Len(denv.calls) >= 1
    /\ denv.calls[1] \notin SourceFailures
    /\ denv.info.total_gifs = 0
    /\ denv.info.total_views = 0

\* C16: when the channel listing yields no item and no views,
\* detect_channel_status returns 'banned' with the reason of the banned
\* check (no GIFs or views accessible) and total_gifs = total_views = 0, and
\* the evaluation has made no call after the listing: no tag fetch and no
\* search probe
C16_EmptyListingIsBannedAndTerminal ==
    (dpc # "banned_check" /\ ListingEmpty) =>
        /\ dpc = "returned"
        /\ Val(dres).status = "banned"
        /\ Val(dres).reason \in {Some("L616"), Some("L626")}
        /\ Val(dres).total_gifs = Some(0)
        /\ Val(dres).total_views = Some(0)
        /\ Len(denv.calls) = 1

\* the listing was answered without any item
C16_Witness ==
    /\ dpc = "returned"
    /\ ListingEmpty
    /\ denv.calls = <<"empty">>
    /\ Val(dres).reason = Some("L616")

\* A sampled item is visible: one of the query terms tested for it returned
\* a result owned by the channel
ItemVisible(g) ==
    /\ g.detail = "ok"
    /\ \E k \in 1..Len(g.tags) : k <= TAGS_PER_GIF /\ g.tags[k] = "hit"

ProbeUnavailableReturned == pc = "returned" /\ IsNone(search_visibility)

\* A baseline exists, the total increased over 24h and every item has a
\* stored view count
IncreasedAllStored ==
    /\ HasBaseline
    /\ Val(view_trend_analysis).views_difference > 0
    /\ Val(view_trend_analysis).total_gifs > 0
    /\ Val(view_trend_analysis).gifs_with_views
          = Val(view_trend_analysis).total_gifs

C18_SmallChannelSignificance ==
    (/\ ProbeUnavailableReturned
     /\ IncreasedAllStored
     /\ Val(view_trend_analysis).total_views_yesterday > 0
     /\ Val(view_trend_analysis).total_views_yesterday < 100000)
    =>
    LET delta == Val(view_trend_analysis).views_difference
        baseline == Val(view_trend_analysis).total_views_yesterday
    IN  analysis.status =
            IF delta >= 1000 \/ (delta > 50 /\ delta * 20 >= baseline)
            THEN "working" ELSE "shadow_banned"

\* C19: with the search probe unavailable, a baseline present and every item
\* having a stored view count, a total that decreased over 24h returns
\* 'working', whatever the 48h baseline is
C19_DecreaseIsWorking ==
    (/\ ProbeUnavailableReturned
     /\ DecreasedViews
     /\ Val(view_trend_analysis).total_gifs > 0
     /\ Val(view_trend_analysis).gifs_with_views
           = Val(view_trend_analysis).total_gifs)
    => analysis.status = "working"

\* The trend call has been answered: db is what the snapshot store held
TrendAnswered ==
    /\ pc \in {"rules", "returned", "raised"}
    /\ ~IsNone(snapshot_store)
    /\ ~IsNone(view_trend_analysis)
    /\ n_gifs > 0

\* The store holds a positive total 48 hours old and none 24 hours old
Only48hTotal ==
    /\ TrendAnswered
    /\ Val(snapshot_store).y24 = 0
    /\ Val(snapshot_store).h48 > 0

\* C20 as stated: when no total 24 hours old is found but one 48 hours old
\* is, the 48h total is the baseline, instead of 'no_history'
C20_FallsBackTo48h ==
    Only48hTotal =>
        /\ Val(view_trend_analysis).yesterday_data_available
        /\ Val(view_trend_analysis).total_views_yesterday
              = Val(snapshot_store).h48

\* C20, amended: the baseline is the total 24 hours old when positive; else
\* the total of the rows dated yesterday when positive; else the rows dated
\* yesterday gif by gif; else, only with auto_check_views, the cached last
\* observation; else there is none. The total 48 hours old is looked up only
\* next to a 24h total and is never the baseline
C20_BaselineOrder ==
    TrendAnswered =>
    LET db == Val(snapshot_store)
        v == Val(view_trend_analysis)
    IN  /\ db.y24 > 0 =>
              /\ v.yesterday_data_available
              /\ v.total_views_yesterday = db.y24
              /\ v.comparison_method = "24_hour"
              /\ v.total_views_48h_ago = db.h48
        /\ (db.y24 = 0 /\ db.ydate > 0) =>
              /\ v.yesterday_data_available
              /\ v.total_views_yesterday = db.ydate
              /\ v.comparison_method = "date_based"
        /\ (db.y24 = 0 /\ db.ydate = 0 /\ db.ygif) =>
              /\ v.yesterday_data_available
              /\ v.total_views_yesterday = db.ygif_sum
        /\ (db.y24 = 0 /\ db.ydate = 0 /\ ~db.ygif) =>
              IF v.comparison_method = "realtime_cache"
              THEN args.auto_check_views /\ v.yesterday_data_available
              ELSE /\ ~v.yesterday_data_available
                   /\ v.trend = "no_history"
                   /\ v.total_views_yesterday = 0
        /\ db.y24 = 0 => v.total_views_48h_ago = 0

\* a total 48 hours old only, no cache comparison: no baseline is reported
C20_Witness ==
    /\ Only48hTotal
    /\ Val(snapshot_store).ydate = 0
    /\ ~args.auto_check_views
    /\ Val(view_trend_analysis).trend = "no_history"
    /\ pc = "returned"

\* The fallback scorer was asked and answered, and no probe result overrides
\* the verdict taken from it
ScorerDecided ==
    /\ pc = "returned"
    /\ IsNone(search_visibility)
    /\ ~IsNone(alternative_analysis)
    /\ ~IsNone(Val(alternative_analysis))

\* 'working' from a score of 50, 'shadow_banned' up to 0, 'unknown' between
ScoreStatus(score) ==
    IF score >= 50 THEN "working"
    ELSE IF score <= 0 THEN "shadow_banned"
    ELSE "unknown"

\* The branch of lines 4957-4985: user endpoint 404, no accessible gif, fewer
\* than 50 uploads, and a view scraping that was attempted
Endpoint404ScrapingFailed ==
    /\ args.user_id /\ args.gifs_endpoint_404
    /\ args.channel_id /\ args.auto_check_views

\* C21 as stated: whenever the verdict is taken from the fallback scorer the
\* status is 'working' iff score >= 50, 'shadow_banned' iff score <= 0 and
\* 'unknown' in between, in every branch that consults the scorer
C21_ScoreMapping ==
    ScorerDecided =>
        analysis.status
            = ScoreStatus(Val(Val(alternative_analysis)).composite_score)

\* C21, amended: that mapping holds in the branches of lines 4986-5027,
\* 5029-5070 and 5072-5113; in the branch of lines 4957-4985 (endpoint 404 and
\* view scraping failed) the status is 'working' iff score >= 50 and
\* 'shadow_banned' for every lower score
C21_ScoreMappingByBranch ==
    ScorerDecided =>
        LET score == Val(Val(alternative_analysis)).composite_score
        IN  IF Endpoint404ScrapingFailed
            THEN analysis.status = IF score >= 50 THEN "working"
                                   ELSE "shadow_banned"
            ELSE analysis.status = ScoreStatus(score)

\* endpoint 404 with a failed scraping, score 25: 'shadow_banned'
C21_Witness ==
    /\ ScorerDecided
    /\ Endpoint404ScrapingFailed
    /\ Val(Val(alternative_analysis)).composite_score = 25
    /\ analysis.status = "shadow_banned"
    /\ HasReason("L4984")

\* The reasons of the rules that set the status to st (a reason is named by
\* the line of its append); the reasons of lines 4572, 4578 and 4599 belong
\* to rules that leave the status as it was
ReasonsSetting(st) ==
    IF st = "banned" THEN {"L4087", "L4107"}
    ELSE IF st = "working" THEN
        {"L4530", "L4536", "L4627", "L4667", "L4677", "L4711", "L4738",
         "L4932", "L4955", "L4976", "L5008", "L5051", "L5094", "L5215",
         "L5238"}
    ELSE IF st = "shadow_banned" THEN
        {"L4456", "L4464", "L4547", "L4558", "L4589", "L4605", "L4639",
         "L4650", "L4696", "L4727", "L4752", "L4944", "L4984", "L5015",
         "L5058", "L5101", "L5230", "L5244"}
    ELSE {"L4158", "L4478", "L4938", "L5021", "L5027", "L5064", "L5070",
          "L5107", "L5113"}

\* C22: every verdict returned by analyze_channel_status, 'unknown' included,
\* carries a non-empty analysis_reasons list that contains the reason of a
\* rule setting the returned status
C22_EveryVerdictHasItsReason ==
    pc = "returned" =>
        /\ Len(analysis.analysis_reasons) > 0
        /\ \E tag \in ReasonsSetting(analysis.status) : HasReason(tag)

\* The sampled gifs that check_shadow_banned_channel has to count as found:
\* those with a tag, or failing tags a usable title word, whose search finds
\* the channel
ShouldCountFound(gif) ==
    \/ \E k \in DOMAIN gif.tags : gif.tags[k] = "hit"
    \/ gif.tags = <<>> /\ gif.title = "hit"

\* check_shadow_banned_channel has returned with a consistent count, every
\* sampled gif counted once, found or not found
ShadowCountsAddUp ==
    shadow_check.pc = "returned" =>
        LET r == shadow_check.result
            s == shadow_check.sample_gifs
        IN  /\ r.gifs_found_in_search + r.gifs_not_found = r.gifs_checked
            /\ r.gifs_checked = Len(s)
            /\ r.gifs_found_in_search
                  = Cardinality({i \in DOMAIN s : ShouldCountFound(s[i])})
            /\ r.details = DOMAIN s

\* C23: check_shadow_banned_channel never raises and always returns; a gif
\* without tags and usable title words, a gif whose searches fail and a gif
\* whose check raises each count as not found while the other gifs are still
\* checked, and gifs_found_in_search + gifs_not_found = gifs_checked
C23_ShadowCheckNeverFatal ==
    /\ [](shadow_check.pc # "raised" /\ ShadowCountsAddUp)
    /\ <>(shadow_check.pc = "returned")

\* two gifs: the check of the first raised, the second was found afterwards
C23_Witness ==
    /\ shadow_check.pc = "returned"
    /\ Len(shadow_check.sample_gifs) = 2
    /\ shadow_check.sample_gifs[1].title = "bad"
    /\ shadow_check.sample_gifs[2].tags = <<"fails", "hit">>
    /\ shadow_check.result.gifs_found_in_search = 1
    /\ shadow_check.result.gifs_not_found = 1
    /\ ~shadow_check.result.is_shadow_banned

\* The call went through the trend block (lines 4246-4399), or returned
\* before it
PastTrendBlock == pc \in {"rules", "returned", "raised"}

FirstTimeChannel ==
    /\ pc \in {"rules", "returned"}
    /\ args.auto_check_views
    /\ n_gifs > 0
    /\ IsNone(cache_before)
    /\ ~IsNone(snapshot_store)
    /\ Val(snapshot_store) = DbRecord(FALSE, 0, 0, 0, FALSE, 0, 0, 0)
    /\ ~IsNone(view_trend_analysis)

\* C25: within one evaluation of a first-time channel the cache entry
\* written by that evaluation is not read back as its baseline: no baseline
\* is reported, the trend stays 'no_history' and is not 'stagnant'
C25_OwnCacheEntryNotBaseline ==
    FirstTimeChannel =>
        /\ ~Val(view_trend_analysis).yesterday_data_available
        /\ Val(view_trend_analysis).comparison_method # "realtime_cache"
        /\ Val(view_trend_analysis).trend = "no_history"

\* The response to the latest request ends the scan: a page with a result of
\* the channel, a failed request, or a short page that reaches the reported
\* total count
LastResponseEnds ==
    /\ ~IsNone(search_scan.last)
    /\ LET r == Val(search_scan.last)
           at == search_scan.requests[Len(search_scan.requests)]
       IN  \/ r.status \in {"raises", "non200"}
           \/ r.match
           \/ /\ r.n > 0 /\ r.n < 100
              /\ r.total_count > 0 /\ at + r.n >= r.total_count

\* The requests made so far: at most 25, the k-th at offset 100 * (k - 1)
RequestsWithinBudget ==
    /\ Len(search_scan.requests) <= 25
    /\ \A k \in DOMAIN search_scan.requests :
          /\ search_scan.requests[k] = 100 * (k - 1)
          /\ search_scan.requests[k] <= 2400

\* C26: check_channel_gifs_in_search_results terminates for every sequence
\* of responses; it issues at most 25 requests per query term, at strictly
\* increasing multiples of 100 from 0 to 2400, and none after the first page
\* with a match, the first failed request or a short page that reaches the
\* reported total count
C26_ScanBoundedAndStops ==
    /\ [](/\ RequestsWithinBudget
          /\ LastResponseEnds => search_scan.pc = "returned"
          /\ search_scan.found =>
                (search_scan.pc = "returned" /\ Val(search_scan.last).match))
    /\ <>(search_scan.pc = "returned")

\* all 25 pages were requested and the last one held a result of the channel
C26_Witness ==
    /\ search_scan.pc = "returned"
    /\ Len(search_scan.requests) = 25
    /\ search_scan.requests[25] = 2400
    /\ search_scan.found

\* C27: when cache_views runs at the same time for two different channels,
\* both entries survive: once both calls have completed, get_cached_views
\* returns for each channel the data written for it
C27_BothEntriesSurvive ==
    (\A t \in Cachers : cachers[t].pc = "done") =>
        \A t \in Cachers :
            get_cached_views(cachers[t].channel_id)
                = Some(cachers[t].views_data)

\* No gif's view count ever changed: all rows of a gif hold the same count
CountsNeverChanged ==
    \A r1, r2 \in timed_rows : r1.gif_id = r2.gif_id =>
        r1.view_count = r2.view_count

\* C28: when analyze_view_trends returns and no gif's view count ever
\* changed, the trend is neither 'increasing' nor 'increasing_48h' and
\* views_difference is not positive, also when some gifs have a row at least
\* 24 hours old and others only newer rows
C28_UnchangedCountsNeverIncrease ==
    (trend_call.pc = "returned" /\ CountsNeverChanged) =>
        /\ Val(trend_call.result).trend \notin {"increasing", "increasing_48h"}
        /\ Val(trend_call.result).views_difference <= 0

\* C29: at every return of analyze_channel_status at most one of the flags
\* banned, shadow_banned and working is true; status is 'banned',
\* 'shadow_banned' or 'working' exactly when the flag of that name is true,
\* and 'unknown' exactly when no flag is true
C29_FlagsMatchStatus ==
    pc = "returned" =>
        /\ ~(analysis.banned /\ analysis.shadow_banned)
        /\ ~(analysis.banned /\ analysis.working)
        /\ ~(analysis.shadow_banned /\ analysis.working)
        /\ (analysis.status = "banned") <=> analysis.banned
        /\ (analysis.status = "shadow_banned") <=> analysis.shadow_banned
        /\ (analysis.status = "working") <=> analysis.working
        /\ (analysis.status = "unknown") <=>
              ~(analysis.banned \/ analysis.shadow_banned \/ analysis.working)

\* A 'working' verdict of the rules was overridden by the final decision: the
\* returned status is 'shadow_banned' and the working flag is cleared
C29_Witness ==
    /\ pc = "returned"
    /\ \E r \in ReasonsSetting("working") : HasReason(r)
    /\ HasReason("L5230")
    /\ analysis.status = "shadow_banned"
    /\ analysis.shadow_banned /\ ~analysis.working /\ ~analysis.banned

\* The search for tag k of item i finds the channel (a fixed answer of the
\* Content Source)
TermFinds(f) == search_hits[f] # 0

\* C30: for fixed answers of the Content Source, the found result of
\* _check_single_gif_visibility does not depend on the order in which the
\* tag probes complete, nor on which of them get cancelled: found is set
\* only by a finished probe of a tag whose search finds the channel, and a
\* call that returns not found has run the search of every selected tag to
\* its end without a match; so found is true exactly when the search of at
\* least one selected tag finds the channel
C30_FoundIndependentOfOrder ==
    \A i \in Items :
        /\ gif_checks[i].found =>
              \E f \in ProbesOf(i) :
                  /\ TermFinds(f)
                  /\ tag_futures[f].state = "finished"
                  /\ tag_futures[f].found
        /\ (gif_checks[i].pc = "returned" /\ ~gif_checks[i].found) =>
              \A f \in ProbesOf(i) :
                  ~TermFinds(f) /\ tag_futures[f].state = "finished"
        /\ gif_checks[i].pc = "returned" =>
              (gif_checks[i].found <=> \E f \in ProbesOf(i) : TermFinds(f))

\* Item 1 returned found although the probe of its first tag, which finds
\* nothing, had not been collected: the match of its second tag completed
\* first, and the probe of its fourth tag, which would also have found the
\* channel, was cancelled
C30_Witness ==
    /\ gif_checks[1].pc = "returned"
    /\ gif_checks[1].found
    /\ ~TermFinds(<<1, 1>>)
    /\ TermFinds(<<1, 2>>)
    /\ TermFinds(<<1, 4>>)
    /\ 1 \notin gif_checks[1].collected
    /\ tag_futures[<<1, 4>>].state = "cancelled"

====
